---------------------------- MODULE Spec2Model ----------------------------
(***************************************************************************)
(* A model of the graph-to-tape compiler and the tape evaluators of        *)
(* MXFunctionInternal (matrix layer) and SXFunctionInternal (scalar        *)
(* layer).                                                                 *)
(*                                                                         *)
(* Conventions.  Flat-list indices, tape indices and work slots are the    *)
(* 0-based integers of the C++ code (so that -1 and the tests ">= 0" mean  *)
(* what they mean there); TLA+ sequences are 1-based, hence the "+ 1" in   *)
(* every subscript.  A node is its index in the node arena; 0 is the null  *)
(* pointer.                                                                *)
(***************************************************************************)
EXTENDS Integers, Sequences, FiniteSets, TLC

(***************************************************************************)
(* Bounds of the model.                                                    *)
(***************************************************************************)
\* The largest number of output expressions of a function.
MaxOutputs == 2

\* The functions that are evaluated have at most MaxEvalOutputs outputs, and
\* an input buffer is set to one of the numbers 1..MaxInputValue.
MaxEvalOutputs == 1

MaxInputValue == 1

\* The largest number of input expressions handed to a constructor.
MaxCtorInputs == 3

\* The largest number of forward directions of a symbolic evaluation.
MaxDirs == 2

(***************************************************************************)
(* The node arena: the expression graphs a function can be built from.     *)
(* Every node carries what the compiler reads of an operator node: its     *)
(* operation, its dependencies, the number of outputs, whether it is a     *)
(* multiple-output node, how many leading arguments may be overwritten in  *)
(* place, the output index of a function-output wrapper, the sparsity      *)
(* handle of each output, and the value of a constant.                     *)
(*   1 a   2 b   (symbols)      3 c (constant)                             *)
(*   4 a+b     5 (a+b)*(a+b)     6 sin(b)     7 sin(b)+c     8 sin(b)*c    *)
(*   9 f(a,b), a call with two outputs of sparsity spA and spB             *)
(*   10, 12 two wrappers of output 0 of f     11 wrapper of output 1 of f  *)
(*   13 setnonzeros(a+b, c), in place on its first argument                *)
(*   14 f.0 + f.0 through the two distinct wrappers                        *)
(*   15 an empty expression that is not a symbol                           *)
(*   16..19 r0..r3, the empty symbols the constructor of the matrix layer  *)
(*   puts in the place of an empty input                                   *)
(*   20 a second constant     21 sin(b)*(second constant)                  *)
(***************************************************************************)
Node(op, dep, nout, multi, inplace, oind, sp, d) ==
  [op |-> op, dep |-> dep, nout |-> nout, multi |-> multi,
   inplace |-> inplace, oind |-> oind, sp |-> sp, d |-> d]

Arena ==
  << Node("OP_PARAMETER",   <<>>,       1, FALSE, 0, 0, <<"spA">>, 0),
     Node("OP_PARAMETER",   <<>>,       1, FALSE, 0, 0, <<"spA">>, 0),
     Node("OP_CONST",       <<>>,       1, FALSE, 0, 0, <<"spA">>, 7),
     Node("OP_ADD",         <<1, 2>>,   1, FALSE, 0, 0, <<"spA">>, 0),
     Node("OP_MUL",         <<4, 4>>,   1, FALSE, 0, 0, <<"spA">>, 0),
     Node("OP_SIN",         <<2>>,      1, FALSE, 0, 0, <<"spA">>, 0),
     Node("OP_ADD",         <<6, 3>>,   1, FALSE, 0, 0, <<"spA">>, 0),
     Node("OP_MUL",         <<6, 3>>,   1, FALSE, 0, 0, <<"spA">>, 0),
     Node("OP_CALL",        <<1, 2>>,   2, TRUE,  0, 0, <<"spA", "spB">>, 0),
     Node("OUTPUT_NODE",    <<9>>,      1, FALSE, 0, 0, <<"spA">>, 0),
     Node("OUTPUT_NODE",    <<9>>,      1, FALSE, 0, 1, <<"spB">>, 0),
     Node("OUTPUT_NODE",    <<9>>,      1, FALSE, 0, 0, <<"spA">>, 0),
     Node("OP_SETNONZEROS", <<4, 3>>,   1, FALSE, 1, 0, <<"spA">>, 0),
     Node("OP_ADD",         <<10, 12>>, 1, FALSE, 0, 0, <<"spA">>, 0),
     Node("OP_CONST",       <<>>,       1, FALSE, 0, 0, <<"sp0">>, 0),
     Node("OP_PARAMETER",   <<>>,       1, FALSE, 0, 0, <<"sp0">>, 0),
     Node("OP_PARAMETER",   <<>>,       1, FALSE, 0, 0, <<"sp0">>, 0),
     Node("OP_PARAMETER",   <<>>,       1, FALSE, 0, 0, <<"sp0">>, 0),
     Node("OP_PARAMETER",   <<>>,       1, FALSE, 0, 0, <<"sp0">>, 0),
     Node("OP_CONST",       <<>>,       1, FALSE, 0, 0, <<"spA">>, 2),
     Node("OP_MUL",         <<6, 20>>,  1, FALSE, 0, 0, <<"spA">>, 0) >>

Nodes == 1..Len(Arena)

Sparsities == {"spA", "spB"}

\* The symbols expressions are built from (the empty ones are not).
Symbols == {n \in Nodes : Arena[n].op = "OP_PARAMETER" /\ Arena[n].sp[1] \in Sparsities}

\* The expressions drawn as outputs of a matrix-layer function.
MXOutputNodes == {1, 4, 5, 6, 7, 8, 10, 11, 13, 14, 21}

\* The output matrices of a scalar-layer function: a matrix is the sequence
\* of its nonzero elements (no multiple-output nodes, wrappers or in-place
\* operators in the scalar layer).
SXOutputMatrices ==
  {<<>>, <<1>>, <<3>>, <<4>>, <<5>>, <<6>>, <<7>>, <<8>>, <<7, 8>>, <<21>>}

(***************************************************************************)
(* Small helpers on sequences.                                             *)
(***************************************************************************)
Range(s) == {s[i] : i \in 1..Len(s)}

SeqsUpTo(S, n) == UNION {[1..k -> S] : k \in 0..n}

IsInjective(s) == \A i, j \in 1..Len(s) : s[i] = s[j] => i = j

RECURSIVE Flatten(_)
Flatten(ss) == IF ss = <<>> THEN <<>> ELSE Head(ss) \o Flatten(Tail(ss))


(***************************************************************************)
(* The constructors.  They return the error raised ("none" when the        *)
(* function is constructed), the input list as the constructor leaves it   *)
(* and the temp of the nodes.                                              *)
(***************************************************************************)
\* MX::isSymbolic, MX::isEmpty, and MX::sym("r" + ind, sparsity).
isSymbolic(n) == Arena[n].op = "OP_PARAMETER"

isEmpty(n) == Arena[n].sp = <<"sp0">>

sym(ind) == 16 + ind

\* A faulty variant of the check: every input is accepted as it is.
AcceptNonSymbolic(ins, ind) == [err |-> "none", inputv |-> ins]

\* "Check for inputs that are not symbolic primitives": an empty one is
\* replaced by a new symbol, any other one is an error.
RECURSIVE CheckSymbolic(_, _)
CheckSymbolic(ins, ind) ==
  IF ind >= Len(ins) THEN [err |-> "none", inputv |-> ins]
  ELSE IF isSymbolic(ins[ind + 1]) THEN CheckSymbolic(ins, ind + 1)
  ELSE IF isEmpty(ins[ind + 1]) THEN CheckSymbolic([ins EXCEPT ![ind + 1] = sym(ind)], ind + 1)
  ELSE [err |-> "NON_SYMBOLIC_INPUT", inputv |-> ins]

\* "Check for duplicate entries among the input expressions": st is
\* has_duplicates and the temp of the nodes.
RECURSIVE MarkDuplicates(_, _)
MarkDuplicates(st, elems) ==
  IF elems = <<>> THEN st
  ELSE MarkDuplicates([has_duplicates |-> st.has_duplicates \/ st.temp[Head(elems)] # 0,
                       temp |-> [st.temp EXCEPT ![Head(elems)] = 1]],
                      Tail(elems))

\* A faulty variant of the reset: the markers are left as they are.
KeepMarkers(temp, elems) == temp

\* "Reset temporaries"
RECURSIVE ResetMarkers(_, _)
ResetMarkers(temp, elems) ==
  IF elems = <<>> THEN temp
  ELSE ResetMarkers([temp EXCEPT ![Head(elems)] = 0], Tail(elems))

\* The duplicate check of both constructors over the input elements.
CheckDuplicates(elems, temp) ==
  LET Marked(st) ==
        [err |-> IF st.has_duplicates THEN "DUPLICATE_INPUT" ELSE "none",
         temp |-> ResetMarkers(st.temp, elems)]
  IN Marked(MarkDuplicates([has_duplicates |-> FALSE, temp |-> temp], elems))

\* MXFunctionInternal::MXFunctionInternal
MXFunctionInternal(ins, outs, temp) ==
  LET Checked(c) ==
        IF c.err # "none" THEN [err |-> c.err, inputv |-> c.inputv, temp |-> temp]
        ELSE [err |-> CheckDuplicates(c.inputv, temp).err, inputv |-> c.inputv,
              temp |-> CheckDuplicates(c.inputv, temp).temp]
  IN Checked(CheckSymbolic(ins, 0))

\* SXFunctionInternal::SXFunctionInternal: the duplicate check over the
\* nonzeros of every input, then "casadi_assert(!outputv_.empty())".
SXFunctionInternal(ins, outs, temp) ==
  LET Checked(c) ==
        [err |-> IF c.err # "none" THEN c.err
                 ELSE IF outs = <<>> THEN "EMPTY_OUTPUT_LIST" ELSE "none",
         inputv |-> ins, temp |-> c.temp]
  IN Checked(CheckDuplicates(Flatten(ins), temp))

(***************************************************************************)
(* Topological sorter: depth-first post-order with an explicit stack,      *)
(* guarded by the nodes' temp field; a node is marked (temp = 1) when it   *)
(* is appended to the list.  The top of the stack is the last element.     *)
(***************************************************************************)
RECURSIVE sort_depth_first(_, _, _)
sort_depth_first(s, nodes, temp) ==
  IF s = <<>> THEN [nodes |-> nodes, temp |-> temp]
  ELSE LET t == s[Len(s)]
           rest == SubSeq(s, 1, Len(s) - 1)
       IN IF t # 0 /\ temp[t] = 0
          THEN LET pending == {i \in 1..Len(Arena[t].dep) : temp[Arena[t].dep[i]] = 0}
               IN IF pending # {}
                  THEN LET i == CHOOSE x \in pending : \A y \in pending : x <= y
                       IN sort_depth_first(Append(s, Arena[t].dep[i]), nodes, temp)
                  ELSE sort_depth_first(rest, Append(nodes, t), [temp EXCEPT ![t] = 1])
          ELSE sort_depth_first(rest, nodes, temp)

\* Sort the graph of each expression of `exprs` in turn; a null pointer (0)
\* after each one stands for its output instruction.
RECURSIVE SortOutputs(_, _, _)
SortOutputs(exprs, nodes, temp) ==
  IF exprs = <<>> THEN [nodes |-> nodes, temp |-> temp]
  ELSE LET r == sort_depth_first(<<Head(exprs)>>, nodes, temp)
       IN SortOutputs(Tail(exprs), Append(r.nodes, 0), r.temp)

\* A faulty variant: the inputs no output depends on are left out.
AddNoInputs(syms, nodes, temp) == nodes

\* "Make sure that all inputs have been added also": the inputs whose temp is
\* still 0 are appended (their temp is left as it is).
RECURSIVE AddUnusedInputs(_, _, _)
AddUnusedInputs(syms, nodes, temp) ==
  IF syms = <<>> THEN nodes
  ELSE AddUnusedInputs(Tail(syms),
                       IF temp[Head(syms)] = 0 THEN Append(nodes, Head(syms)) ELSE nodes,
                       temp)

\* "Set the temporary variables to be the corresponding place in the sorted graph".
RECURSIVE SetTempToPlace(_, _, _)
SetTempToPlace(nodes, i, temp) ==
  IF i >= Len(nodes) THEN temp
  ELSE SetTempToPlace(nodes, i + 1,
                      IF nodes[i + 1] # 0 THEN [temp EXCEPT ![nodes[i + 1]] = i] ELSE temp)

\* The flat node list of init(): sorted outputs, sentinels, unused inputs;
\* with the temp of every listed node set to its place.
NodeList(outs, ins, temp) ==
  LET Placed(nodes, t) == [nodes |-> nodes, temp |-> SetTempToPlace(nodes, 0, t)]
      Sorted(r) == Placed(AddUnusedInputs(ins, r.nodes, r.temp), r.temp)
  IN Sorted(SortOutputs(outs, <<>>, temp))

\* "Reset the temporary variables".
RECURSIVE ResetTemp(_, _, _)
ResetTemp(nodes, i, temp) ==
  IF i >= Len(nodes) THEN temp
  ELSE ResetTemp(nodes, i + 1,
                 IF nodes[i + 1] # 0 THEN [temp EXCEPT ![nodes[i + 1]] = 0] ELSE temp)

\* "Now mark each input's place in the algorithm".
RECURSIVE MarkSymbLoc(_, _)
MarkSymbLoc(symb_loc, temp) ==
  IF symb_loc = <<>> THEN temp
  ELSE MarkSymbLoc(Tail(symb_loc), [temp EXCEPT ![Head(symb_loc)[2]] = Head(symb_loc)[1] + 1])

\* vector<int>(n, 0) and friends, and the update of element i (0-based).
Fill(n, v) == [i \in 1..n |-> v]

Put(s, i, v) == [s EXCEPT ![i + 1] = v]

Inc(s, i, d) == [s EXCEPT ![i + 1] = @ + d]

(***************************************************************************)
(* MXFunctionInternal::init, the instruction sequence.                     *)
(***************************************************************************)
\* "Increase the reference count of the dependencies".
RECURSIVE MXCountRefs(_, _, _)
MXCountRefs(arg, c, refcount) ==
  IF c >= Len(arg) THEN refcount
  ELSE MXCountRefs(arg, c + 1,
                   IF arg[c + 1] >= 0 THEN Inc(refcount, arg[c + 1], 1) ELSE refcount)

\* One turn of the loop over the nodes.
MXBuildStep(st, n, outs) ==
  LET op == IF n = 0 THEN "OP_OUTPUT" ELSE Arena[n].op
      symb_loc == IF op = "OP_PARAMETER"
                  THEN Append(st.symb_loc, <<Len(st.alg), n>>) ELSE st.symb_loc
  IN IF op # "OUTPUT_NODE"
     THEN LET arg == IF op = "OP_OUTPUT" THEN <<st.temp[outs[st.curr_oind + 1]]>>
                     ELSE [i \in 1..Len(Arena[n].dep) |-> st.temp[Arena[n].dep[i]]]
              res == IF op = "OP_OUTPUT" THEN <<st.curr_oind>>
                     ELSE IF Arena[n].multi THEN Fill(Arena[n].nout, -1)
                     ELSE Put(Fill(Arena[n].nout, 0), 0, st.temp[n])
              ae == [op |-> op, data |-> n, arg |-> arg, res |-> res]
          IN [st EXCEPT !.symb_loc = symb_loc,
                        !.curr_oind = IF op = "OP_OUTPUT" THEN @ + 1 ELSE @,
                        !.refcount = MXCountRefs(arg, 0, @),
                        !.place_in_alg = Append(@, Len(st.alg)),
                        !.alg = Append(@, ae)]
     ELSE LET oind == Arena[n].oind
              pind == st.place_in_alg[st.temp[Arena[n].dep[1]] + 1]
              otmp == st.alg[pind + 1].res[oind + 1]
          IN IF otmp < 0
             THEN [st EXCEPT !.symb_loc = symb_loc,
                             !.alg[pind + 1].res[oind + 1] = st.temp[n],
                             !.place_in_alg = Append(@, -1)]
             ELSE [st EXCEPT !.symb_loc = symb_loc,
                             !.temp[n] = otmp,
                             !.place_in_alg = Append(@, -1)]

RECURSIVE MXBuildLoop(_, _, _, _)
MXBuildLoop(st, nodes, i, outs) ==
  IF i >= Len(nodes) THEN st
  ELSE MXBuildLoop(MXBuildStep(st, nodes[i + 1], outs), nodes, i + 1, outs)

MXBuild(nodes, temp, outs) ==
  MXBuildLoop([alg |-> <<>>, place_in_alg |-> <<>>, refcount |-> Fill(Len(nodes), 0),
               symb_loc |-> <<>>, curr_oind |-> 0, temp |-> temp],
              nodes, 0, outs)

(***************************************************************************)
(* MXFunctionInternal::init, the liveness allocator.  `st` holds the tape, *)
(* the reference counts, the place of every flat-list index in the work    *)
(* vector, the stacks of unused slots by sparsity handle (top = last       *)
(* element) and the work vector size.                                      *)
(***************************************************************************)
\* A faulty variant of the rewriting of an argument: the index in the sorted
\* list is kept.
KeepListIndex(place, ch_ind) == ch_ind

\* "Point to the place in the work vector instead of to the place in the list
\* of nodes"
PlaceOfArg(place, ch_ind) == place[ch_ind + 1]

\* A faulty variant: every freed slot goes on the same stack.
FreedOnOneStack(nodes, ch_ind) == "spA"

\* "Get a pointer to the sparsity pattern of the argument that can be freed":
\* the key of the stack a freed slot is pushed on.
FreedSparsity(nodes, ch_ind) == Arena[nodes[ch_ind + 1]].sp[1]

\* "Get a pointer to the sparsity pattern node": the key of the stack a result
\* looks for a slot in.
ResultSparsity(el, c) == Arena[el.data].sp[c + 1]

\* "Are reuse of variables (live variables) enabled?" and is the stack non-empty.
MXCanReuse(live, unused) == live /\ unused # <<>>

\* "Dereference or free the memory of the arguments" c = last-1 down to first
\* of tape element k.
RECURSIVE MXFreeArgs(_, _, _, _, _, _)
MXFreeArgs(st, k, c, first, nodes, live) ==
  IF c < first THEN st
  ELSE LET ch_ind == st.alg[k + 1].arg[c + 1]
       IN IF ch_ind >= 0
          THEN LET remaining == st.refcount[ch_ind + 1] - 1
                   sp == FreedSparsity(nodes, ch_ind)
                   unused == IF live /\ remaining = 0
                             THEN [st.unused EXCEPT ![sp] = Append(@, st.place[ch_ind + 1])]
                             ELSE st.unused
               IN MXFreeArgs([st EXCEPT !.refcount = Put(@, ch_ind, remaining),
                                        !.unused = unused,
                                        !.alg[k + 1].arg[c + 1] = PlaceOfArg(st.place, ch_ind)],
                             k, c - 1, first, nodes, live)
          ELSE MXFreeArgs(st, k, c - 1, first, nodes, live)

\* "Allocate/reuse memory for the results of the operation", results c, c+1, ...
RECURSIVE MXAllocRes(_, _, _, _)
MXAllocRes(st, k, c, live) ==
  IF c >= Len(st.alg[k + 1].res) THEN st
  ELSE LET r == st.alg[k + 1].res[c + 1]
           sp == ResultSparsity(st.alg[k + 1], c)
       IN IF r >= 0
          THEN IF MXCanReuse(live, st.unused[sp])
               THEN LET top == st.unused[sp][Len(st.unused[sp])]
                    IN MXAllocRes([st EXCEPT !.alg[k + 1].res[c + 1] = top,
                                             !.place = Put(@, r, top),
                                             !.unused[sp] = SubSeq(@, 1, Len(@) - 1)],
                                  k, c + 1, live)
               ELSE MXAllocRes([st EXCEPT !.alg[k + 1].res[c + 1] = st.worksize,
                                          !.place = Put(@, r, st.worksize),
                                          !.worksize = @ + 1],
                               k, c + 1, live)
          ELSE MXAllocRes(st, k, c + 1, live)

\* A faulty variant of the number below: every argument counts as in place.
allInplace(el) == Len(el.arg)

\* it->data->numInplace(): the number of leading arguments the operation of
\* the element may overwrite.
numInplace(el) == Arena[el.data].inplace

\* One tape element: free the in-place arguments, allocate the results, free
\* the other arguments; an output instruction only frees its argument.
MXPlaceStep(st, k, nodes, live) ==
  LET el == st.alg[k + 1]
  IN IF el.op = "OP_OUTPUT"
     THEN MXFreeArgs(st, k, 0, 0, nodes, live)
     ELSE LET last_to_free == numInplace(el)
              s1 == MXFreeArgs(st, k, last_to_free - 1, 0, nodes, live)
              s2 == MXAllocRes(s1, k, 0, live)
          IN MXFreeArgs(s2, k, Len(el.arg) - 1, last_to_free, nodes, live)

RECURSIVE MXPlaceLoop(_, _, _, _)
MXPlaceLoop(st, k, nodes, live) ==
  IF k >= Len(st.alg) THEN st
  ELSE MXPlaceLoop(MXPlaceStep(st, k, nodes, live), k + 1, nodes, live)

\* `place` reuses the memory of place_in_alg, resized to the number of nodes.
MXPlace(b, nodes, live) ==
  MXPlaceLoop([alg |-> b.alg, refcount |-> b.refcount, place |-> b.place_in_alg,
               unused |-> [sp \in Sparsities |-> <<>>], worksize |-> 0],
              0, nodes, live)

\* "Allocate work vectors (numeric)": a slot is given the sparsity of the
\* first result found for it while it is still the empty matrix.
EmptyMatrix == [sp |-> "none", val |-> <<>>, second |-> 0]

RECURSIVE MXAllocWorkRes(_, _, _)
MXAllocWorkRes(work, el, c) ==
  IF c >= Len(el.res) THEN work
  ELSE MXAllocWorkRes(
         IF el.res[c + 1] >= 0 /\ work[el.res[c + 1] + 1].sp = "none"
         THEN Put(work, el.res[c + 1],
                  [sp |-> Arena[el.data].sp[c + 1], val |-> <<0>>, second |-> 0])
         ELSE work,
         el, c + 1)

RECURSIVE MXAllocWork(_, _, _)
MXAllocWork(work, alg, k) ==
  IF k >= Len(alg) THEN work
  ELSE MXAllocWork(IF alg[k + 1].op # "OP_OUTPUT"
                   THEN MXAllocWorkRes(work, alg[k + 1], 0) ELSE work,
                   alg, k + 1)

\* "Add input instructions": the parameter of every declared input becomes
\* an input instruction, and the input's marker is removed.
RECURSIVE MXMarkInputs(_, _, _, _)
MXMarkInputs(alg, ins, ind, temp) ==
  IF ind >= Len(ins) THEN [alg |-> alg, temp |-> temp]
  ELSE LET i == temp[ins[ind + 1]] - 1
       IN IF i >= 0
          THEN MXMarkInputs([alg EXCEPT ![i + 1].op = "OP_INPUT", ![i + 1].arg = <<ind>>],
                            ins, ind + 1, [temp EXCEPT ![ins[ind + 1]] = 0])
          ELSE MXMarkInputs(alg, ins, ind + 1, temp)

\* A faulty variant: the list of an earlier init() is kept.
KeepFreeVars(free0) == free0

\* free_vars_.clear()
ClearFreeVars(free0) == <<>>

RECURSIVE LocateFree(_, _, _)
\* A faulty variant: the marker is not consulted.
LocateFreeUnmarked(symb_loc, temp, free) ==
  [free_vars |-> free \o [i \in 1..Len(symb_loc) |-> symb_loc[i][2]],
   temp |-> [n \in Nodes |-> IF n \in {symb_loc[i][2] : i \in 1..Len(symb_loc)}
                              THEN 0 ELSE temp[n]]]

\* A faulty variant: the search stops at the first parameter without a marker.
LocateFreeUntilDeclared(symb_loc, temp, free) ==
  LET syms == [i \in 1..Len(symb_loc) |-> symb_loc[i][2]]
      stops == {i \in 1..Len(syms) : temp[syms[i]] = 0}
      n == IF stops = {} THEN Len(syms)
           ELSE (CHOOSE i \in stops : \A j \in stops : i <= j) - 1
  IN [free_vars |-> free \o SubSeq(syms, 1, n),
      temp |-> [m \in Nodes |-> IF m \in Range(syms) THEN 0 ELSE temp[m]]]

\* A faulty variant: the marker of a free parameter is left in the node.
LocateFreeKeepMarker(symb_loc, temp, free) ==
  [free_vars |-> free \o SelectSeq([i \in 1..Len(symb_loc) |-> symb_loc[i][2]],
                                   LAMBDA n : temp[n] - 1 >= 0),
   temp |-> temp]

\* "Locate free variables": the parameters that still carry a marker.
LocateFree(symb_loc, temp, free) ==
  IF symb_loc = <<>> THEN [free_vars |-> free, temp |-> temp]
  ELSE LET n == Head(symb_loc)[2]
       IN IF temp[n] - 1 >= 0
          THEN LocateFree(Tail(symb_loc), [temp EXCEPT ![n] = 0], Append(free, n))
          ELSE LocateFree(Tail(symb_loc), temp, free)

\* The whole of MXFunctionInternal::init: what it leaves in the function
\* (algorithm_, work_, free_vars_) and in the nodes (temp).
MXInit(ins, outs, live, temp0, free0) ==
  LET Located(nl, pl, mi, fv) ==
        [algorithm |-> mi.alg, worksize |-> pl.worksize,
         work |-> MXAllocWork(Fill(pl.worksize, EmptyMatrix), pl.alg, 0),
         free_vars |-> fv.free_vars, temp |-> fv.temp, nodes |-> nl.nodes,
         constants |-> <<>>, operations |-> <<>>]
      Marked(nl, b, pl, mi) ==
        Located(nl, pl, mi, LocateFree(b.symb_loc, mi.temp, ClearFreeVars(free0)))
      Placed(nl, b, pl) ==
        Marked(nl, b, pl,
               MXMarkInputs(pl.alg, ins, 0,
                            MarkSymbLoc(b.symb_loc, ResetTemp(nl.nodes, 0, b.temp))))
      Built(nl, b) == Placed(nl, b, MXPlace(b, nl.nodes, live))
      Sorted(nl) == Built(nl, MXBuild(nl.nodes, nl.temp, outs))
  IN Sorted(NodeList(outs, ins, temp0))

(***************************************************************************)
(* SXFunctionInternal::init.  A tape element is (op, i0, i1, i2, d); a     *)
(* field the code never assigns holds "uninit".  An input or an output is  *)
(* a matrix, here the sequence of its nonzero elements.                    *)
(***************************************************************************)
\* casadi_math<double>::ndeps: the number of arguments of an operation.
ndeps(op) ==
  CASE op \in {"OP_CONST", "OP_PARAMETER", "OP_INPUT"} -> 0
    [] op \in {"OP_OUTPUT", "OP_SIN"} -> 1
    [] OTHER -> 2

\* SXNode::dep(i): a unary node returns its only dependency for every i.
SXDep(n, i) ==
  IF i < Len(Arena[n].dep) THEN Arena[n].dep[i + 1] ELSE Arena[n].dep[Len(Arena[n].dep)]

\* The first output at or after oind that has a nonzero.
RECURSIVE SXSkipEmpty(_, _)
SXSkipEmpty(outs, oind) ==
  IF oind < Len(outs) /\ Len(outs[oind + 1]) = 0 THEN SXSkipEmpty(outs, oind + 1) ELSE oind

SXArg(ae, c) == IF c = 0 THEN ae.i1 ELSE ae.i2

\* A faulty variant of the count below: a node counts as read once, however
\* many elements read it.
SXCountOnce(ae, c, refcount) ==
  [i \in 1..Len(refcount) |->
     IF \E e \in c..(ndeps(ae.op) - 1) : SXArg(ae, e) = i - 1 THEN 1 ELSE refcount[i]]

\* "Increase count of dependencies".
RECURSIVE SXCountRefs(_, _, _)
SXCountRefs(ae, c, refcount) ==
  IF c >= ndeps(ae.op) THEN refcount
  ELSE SXCountRefs(ae, c + 1, Inc(refcount, SXArg(ae, c), 1))

UninitAlgEl == [op |-> "uninit", i0 |-> "uninit", i1 |-> "uninit", i2 |-> "uninit",
                d |-> "uninit"]

\* One turn of the loop over the nodes.
SXBuildStep(st, n, outs) ==
  LET op == IF n = 0 THEN "OP_OUTPUT" ELSE Arena[n].op
      ae0 == [UninitAlgEl EXCEPT !.op = op]
  IN CASE op = "OP_CONST" ->
            LET ae == [ae0 EXCEPT !.d = Arena[n].d, !.i0 = st.temp[n]]
            IN [st EXCEPT !.refcount = SXCountRefs(ae, 0, @), !.alg = Append(@, ae)]
       [] op = "OP_PARAMETER" ->
            LET ae == [ae0 EXCEPT !.i0 = st.temp[n]]
            IN [st EXCEPT !.symb_loc = Append(@, <<Len(st.alg), n>>),
                          !.refcount = SXCountRefs(ae, 0, @), !.alg = Append(@, ae)]
       [] op = "OP_OUTPUT" ->
            LET ae == [ae0 EXCEPT !.i0 = st.curr_oind,
                                  !.i1 = st.temp[outs[st.curr_oind + 1][st.curr_nz + 1]],
                                  !.i2 = st.curr_nz]
                wrap == st.curr_nz + 1 >= Len(outs[st.curr_oind + 1])
            IN [st EXCEPT !.curr_nz = IF wrap THEN 0 ELSE @ + 1,
                          !.curr_oind = IF wrap THEN SXSkipEmpty(outs, @ + 1) ELSE @,
                          !.refcount = SXCountRefs(ae, 0, @), !.alg = Append(@, ae)]
       [] OTHER ->
            LET ae == [ae0 EXCEPT !.i0 = st.temp[n], !.i1 = st.temp[SXDep(n, 0)],
                                  !.i2 = st.temp[SXDep(n, 1)]]
            IN [st EXCEPT !.refcount = SXCountRefs(ae, 0, @), !.alg = Append(@, ae)]

RECURSIVE SXBuildLoop(_, _, _, _)
SXBuildLoop(st, nodes, i, outs) ==
  IF i >= Len(nodes) THEN st
  ELSE SXBuildLoop(SXBuildStep(st, nodes[i + 1], outs), nodes, i + 1, outs)

SXBuild(nodes, temp, outs) ==
  SXBuildLoop([alg |-> <<>>, refcount |-> Fill(Len(nodes), 0), symb_loc |-> <<>>,
               curr_oind |-> SXSkipEmpty(outs, 0), curr_nz |-> 0, temp |-> temp],
              nodes, 0, outs)

\* "decrease reference count of children", c = ndeps-1 down to 0.
RECURSIVE SXFreeArgs(_, _, _)
SXFreeArgs(st, el, c) ==
  IF c < 0 THEN st
  ELSE LET ch_ind == SXArg(el, c)
           remaining == st.refcount[ch_ind + 1] - 1
       IN SXFreeArgs([st EXCEPT !.refcount = Put(@, ch_ind, remaining),
                                !.unused = IF remaining = 0
                                           THEN Append(@, st.place[ch_ind + 1]) ELSE @],
                     el, c - 1)

\* A faulty variant: a freed slot is taken whatever the option says.
SXReuseAlways(live, unused) == unused # <<>>

\* A faulty variant: no freed slot is ever taken.
SXReuseNever(live, unused) == FALSE

\* A faulty variant: the option is read inverted.
SXReuseInverted(live, unused) == ~live /\ unused # <<>>

\* "if (live_variables && !unused.empty())"
SXCanReuse(live, unused) == live /\ unused # <<>>

\* One tape element: free the arguments, find a place for the result, rewrite
\* the arguments to their places.
SXPlaceStep(st, k, live) ==
  LET el == st.alg[k + 1]
      nd == ndeps(el.op)
      s1 == SXFreeArgs(st, el, nd - 1)
      reuse == SXCanReuse(live, s1.unused)
      slot == IF reuse THEN s1.unused[Len(s1.unused)] ELSE s1.worksize
      s2 == IF el.op # "OP_OUTPUT"
            THEN [s1 EXCEPT !.place = Put(@, el.i0, slot),
                            !.unused = IF reuse THEN SubSeq(@, 1, Len(@) - 1) ELSE @,
                            !.worksize = IF reuse THEN @ ELSE @ + 1,
                            !.alg[k + 1].i0 = slot]
            ELSE s1
      a1 == IF nd >= 1 THEN s2.place[el.i1 + 1] ELSE el.i1
      a2 == IF nd >= 2 THEN s2.place[el.i2 + 1]
            ELSE IF nd = 1 /\ el.op # "OP_OUTPUT" THEN a1 ELSE el.i2
  IN [s2 EXCEPT !.alg[k + 1].i1 = a1, !.alg[k + 1].i2 = a2]

RECURSIVE SXPlaceLoop(_, _, _)
SXPlaceLoop(st, k, live) ==
  IF k >= Len(st.alg) THEN st
  ELSE SXPlaceLoop(SXPlaceStep(st, k, live), k + 1, live)

\* vector<int> place(nodes.size()) is value-initialised.
SXPlace(b, nodes, live) ==
  SXPlaceLoop([alg |-> b.alg, refcount |-> b.refcount, place |-> Fill(Len(nodes), 0),
               unused |-> <<>>, worksize |-> 0],
              0, live)

\* "Add input instructions", over the nonzeros of every input.
RECURSIVE SXMarkInputs(_, _, _, _, _)
SXMarkInputs(alg, ins, ind, nz, temp) ==
  IF ind >= Len(ins) THEN [alg |-> alg, temp |-> temp]
  ELSE IF nz >= Len(ins[ind + 1]) THEN SXMarkInputs(alg, ins, ind + 1, 0, temp)
  ELSE LET e == ins[ind + 1][nz + 1]
           i == temp[e] - 1
       IN IF i >= 0
          THEN SXMarkInputs([alg EXCEPT ![i + 1].op = "OP_INPUT", ![i + 1].i1 = ind,
                                        ![i + 1].i2 = nz],
                            ins, ind, nz + 1, [temp EXCEPT ![e] = 0])
          ELSE SXMarkInputs(alg, ins, ind, nz + 1, temp)

\* std::vector::resize(n, v): the elements kept are unchanged.
Resize(w, n, v) == [i \in 1..n |-> IF i <= Len(w) THEN w[i] ELSE v]

\* "Sort the nodes by type": the constants and the operations of the node
\* list, each in the order of the list.
RECURSIVE SortByType(_, _)
SortByType(st, nodes) ==
  IF nodes = <<>> THEN st
  ELSE SortByType(IF Head(nodes) = 0 THEN st
                  ELSE IF Arena[Head(nodes)].op = "OP_CONST"
                       THEN [st EXCEPT !.constants = Append(@, Head(nodes))]
                  ELSE IF Arena[Head(nodes)].op # "OP_PARAMETER"
                       THEN [st EXCEPT !.operations = Append(@, Head(nodes))]
                  ELSE st,
                  Tail(nodes))

\* The whole of SXFunctionInternal::init.
SXInit(ins, outs, live, temp0, work0, free0) ==
  LET Typed(nl, pl, mi, fv, ty) ==
        [algorithm |-> mi.alg, worksize |-> pl.worksize,
         work |-> Resize(work0, pl.worksize, <<-1>>),
         free_vars |-> fv.free_vars, temp |-> fv.temp, nodes |-> nl.nodes,
         constants |-> ty.constants, operations |-> ty.operations]
      Located(nl, pl, mi, fv) ==
        Typed(nl, pl, mi, fv,
              SortByType([constants |-> <<>>, operations |-> <<>>], nl.nodes))
      Marked(nl, b, pl, mi) ==
        Located(nl, pl, mi, LocateFree(b.symb_loc, mi.temp, ClearFreeVars(free0)))
      Placed(nl, b, pl) ==
        Marked(nl, b, pl,
               SXMarkInputs(pl.alg, ins, 0, 0,
                            MarkSymbLoc(b.symb_loc, ResetTemp(nl.nodes, 0, b.temp))))
      Built(nl, b) == Placed(nl, b, SXPlace(b, nl.nodes, live))
      Sorted(nl) == Built(nl, SXBuild(nl.nodes, nl.temp, outs))
  IN Sorted(NodeList(Flatten(outs), Flatten(ins), temp0))

(***************************************************************************)
(* Numeric evaluation.  A numeric value is a sequence of integers: <<v>>   *)
(* for the number v (<<-1>> stands for NaN), and the kernel of an operator *)
(* applied to argument values is the operator's tag followed by the        *)
(* arguments (operators are uninterpreted: two values are equal only if    *)
(* they were computed the same way from the same numbers).                 *)
(***************************************************************************)
OpTag(op) ==
  CASE op = "OP_ADD" -> 101
    [] op = "OP_MUL" -> 102
    [] op = "OP_SIN" -> 103
    [] OTHER -> 100

\* MXNode::evaluateD: result c of node n for the given argument values.
evaluateD(n, c, args) == <<200 + n, c>> \o Flatten(args)

\* CASADI_MATH_FUN_BUILTIN: f = op(x, y); a unary operation ignores y.
MathFun(op, x, y) == IF ndeps(op) = 1 THEN <<OpTag(op)>> \o x ELSE <<OpTag(op)>> \o x \o y

\* The kernel call of one MX tape element: the non-null results are written.
RECURSIVE MXWriteRes(_, _, _, _)
MXWriteRes(work, el, c, args) ==
  IF c >= Len(el.res) THEN work
  ELSE MXWriteRes(IF el.res[c + 1] >= 0
                  THEN [work EXCEPT ![el.res[c + 1] + 1].val = evaluateD(el.data, c, args)]
                  ELSE work,
                  el, c + 1, args)

MXEvalStep(st, el) ==
  CASE el.op = "OP_INPUT" ->
         [st EXCEPT !.work[el.res[1] + 1].val = st.input[el.arg[1] + 1]]
    [] el.op = "OP_OUTPUT" ->
         [st EXCEPT !.output[el.res[1] + 1] = st.work[el.arg[1] + 1].val]
    [] OTHER ->
         LET args == [i \in 1..Len(el.arg) |->
                        IF el.arg[i] >= 0 THEN st.work[el.arg[i] + 1].val ELSE <<>>]
         IN [st EXCEPT !.work = MXWriteRes(@, el, 0, args)]

\* A faulty variant: an input is not loaded again, the slot keeps what it held.
SXEvalStepNoLoad(st, el) ==
  CASE el.op = "OP_CONST" -> [st EXCEPT !.work[el.i0 + 1] = <<el.d>>]
    [] el.op = "OP_INPUT" -> st
    [] el.op = "OP_OUTPUT" -> [st EXCEPT !.output[el.i0 + 1][el.i2 + 1] = st.work[el.i1 + 1]]
    [] el.op = "OP_PARAMETER" -> st
    [] OTHER -> [st EXCEPT !.work[el.i0 + 1] =
                             MathFun(el.op, st.work[el.i1 + 1], st.work[el.i2 + 1])]

SXEvalStep(st, el) ==
  CASE el.op = "OP_CONST" -> [st EXCEPT !.work[el.i0 + 1] = <<el.d>>]
    [] el.op = "OP_INPUT" -> [st EXCEPT !.work[el.i0 + 1] = st.input[el.i1 + 1][el.i2 + 1]]
    [] el.op = "OP_OUTPUT" -> [st EXCEPT !.output[el.i0 + 1][el.i2 + 1] = st.work[el.i1 + 1]]
    [] el.op = "OP_PARAMETER" -> st
    [] OTHER -> [st EXCEPT !.work[el.i0 + 1] =
                             MathFun(el.op, st.work[el.i1 + 1], st.work[el.i2 + 1])]

RECURSIVE EvalLoop(_, _, _, _)
EvalLoop(st, alg, k, lay) ==
  IF k >= Len(alg) THEN st
  ELSE EvalLoop(IF lay = "MX" THEN MXEvalStep(st, alg[k + 1]) ELSE SXEvalStep(st, alg[k + 1]),
                alg, k + 1, lay)

\* A faulty variant: the tape is run before the free variables are looked at.
EvaluateThenCheck(lay, alg, free, w, inp, out) ==
  LET r == EvalLoop([work |-> w, input |-> inp, output |-> out], alg, 0, lay)
  IN [work |-> r.work, output |-> r.output,
      err |-> IF free # <<>> THEN "FREE_VARIABLE" ELSE "none", executed |-> Len(alg)]

\* "Make sure that there are no free variables", then the loop over the tape.
\* executed is the number of tape elements that were run.
EvaluateBody(lay, alg, free, w, inp, out) ==
  IF free # <<>>
  THEN [work |-> w, output |-> out, err |-> "FREE_VARIABLE", executed |-> 0]
  ELSE LET r == EvalLoop([work |-> w, input |-> inp, output |-> out], alg, 0, lay)
       IN [work |-> r.work, output |-> r.output, err |-> "none", executed |-> Len(alg)]

(***************************************************************************)
(* The state of one function object and of the nodes it is built from.     *)
(***************************************************************************)
VARIABLES
  constructed,     \* the constructor has returned a function object
  layer,           \* "MX" or "SX"
  inputv,          \* the declared inputs (MX: nodes; SX: matrices of nodes)
  outputv,         \* the output expressions
  live_variables,  \* the option of that name
  temp,            \* the temp field of every node
  is_init,         \* init() has succeeded
  algorithm,       \* algorithm_
  work,            \* work_
  free_vars,       \* free_vars_
  constants,       \* scalar layer: constants_, the constant nodes in tape order
  operations,      \* scalar layer: operations_, the operation nodes in tape order
  input,           \* the input buffers
  output,          \* the output buffers
  err,             \* the outcome of the last evaluate()
  executed,        \* the number of tape elements the last evaluate() ran
  reinit,          \* init() has been called on the initialised function
  adphase,         \* where an evalMX call is: "idle", "fwd", "rev", or "returned"
                   \* while the caller holds the results
  call,            \* output_given, skip_fwd and skip_adj of the last evalMX call
  alg_counter,     \* evalMX: the index of the tape element to process next
  swork,           \* evalMX: the symbolic work vector
  tape,            \* evalMX: the tape of spilled variables
  tt,              \* evalMX: the tape counter
  fwd_seen,        \* the arguments read and the results written by every
                   \* operation of the forward sweep of the call in progress
  rev_seen,        \* the tape index, arguments and results the last reverse
                   \* kernel of the call in progress was given
  poisoned,        \* an evalMX call was ended by an error in its reverse sweep
  dwork,           \* evalMX: the work vector of the forward derivatives
  fwd_dirs,        \* the forward directions every kernel of the call in progress
                   \* was given seeds for
  res,             \* the results of the last symbolic evaluation
  fsens,           \* its forward sensitivities
  asens,           \* its adjoint sensitivities (scalar layer)
  spw,             \* the sparsity pass: the work vector and the buffers read
                   \* as bit masks
  clones,          \* the evaluations of the clones of the function
  expanded,        \* the scalar-layer function expand() has made
  adj,             \* the adjoint sweeps of the last scalar-layer call: its
                   \* arguments and seeds, s_work_ before the first sweep
                   \* and after each
  second           \* a second function object built on the same nodes

advars == <<adphase, call, alg_counter, swork, tape, tt, fwd_seen, rev_seen, poisoned,
            dwork, fwd_dirs, res, fsens, asens>>

xvars == <<spw, clones, expanded, adj, second>>

vars == <<constructed, layer, inputv, outputv, live_variables, temp, is_init, algorithm, work,
          free_vars, constants, operations, input, output, err, executed, reinit, advars,
          xvars>>

\* The declared inputs: every list of pairwise distinct symbols.
MXInputLists == {s \in SeqsUpTo(Symbols, Cardinality(Symbols)) : IsInjective(s)}

\* The same in the scalar layer: all symbols in one matrix, or one matrix each.
SXInputLists ==
  {<<>>} \cup {<<f>> : f \in MXInputLists \ {<<>>}} \cup
  {[i \in 1..Len(f) |-> <<f[i]>>] : f \in {g \in MXInputLists : Len(g) > 1}}

MXOutputLists == SeqsUpTo(MXOutputNodes, MaxOutputs)

\* "casadi_assert(!outputv_.empty())" in the constructor of the scalar layer.
SXOutputLists == SeqsUpTo(SXOutputMatrices, MaxOutputs) \ {<<>>}

\* The buffers the constructor allocates: zeros in the shape of the inputs
\* and of the outputs.
MXBuffers(exprs) == [i \in 1..Len(exprs) |-> <<0>>]

SXBuffers(exprs) == [i \in 1..Len(exprs) |-> [j \in 1..Len(exprs[i]) |-> <<0>>]]

\* No evalMX call yet, and no reverse kernel called yet.
NoCall ==
  [output_given |-> FALSE, skip_fwd |-> TRUE, skip_adj |-> TRUE, made |-> FALSE,
   fseed |-> <<>>, purge |-> FALSE]

NoKernel == [k |-> -1, arg |-> <<>>, res |-> <<>>]

\* No sparsity pass yet.
NoSp == [phase |-> "idle", fwd |-> TRUE, pass |-> TRUE, iwork |-> <<>>, input |-> <<>>,
         output |-> <<>>, seed |-> [input |-> <<>>, output |-> <<>>]]

\* No clone yet.
NoClones == [heap |-> <<>>, inst |-> <<>>]

\* No second function yet.
NoSecond ==
  [constructed |-> FALSE, err |-> "none", inputv |-> <<>>, outputv |-> <<>>, live |-> TRUE,
   is_init |-> FALSE, algorithm |-> <<>>, work |-> <<>>, free_vars |-> <<>>]

\* No adjoint sweep yet.
NoSweeps == [arg |-> <<>>, aseed |-> <<>>, start |-> <<>>, after |-> <<>>]

\* expand() has not been called.
NoFunction ==
  [made |-> FALSE, err |-> "none", inputv |-> <<>>, outputv |-> <<>>, is_init |-> FALSE,
   algorithm |-> <<>>, work |-> <<>>, free_vars |-> <<>>, given |-> <<>>, output |-> <<>>,
   evaluated |-> FALSE]

\* A constructed function: symbolic, pairwise distinct inputs; the temp of
\* every node is 0.
Init ==
  /\ constructed = TRUE
  /\ layer \in {"MX", "SX"}
  /\ live_variables \in BOOLEAN
  /\ inputv \in IF layer = "MX" THEN MXInputLists ELSE SXInputLists
  /\ outputv \in IF layer = "MX" THEN MXOutputLists ELSE SXOutputLists
  /\ temp = [n \in Nodes |-> 0]
  /\ is_init = FALSE
  /\ algorithm = <<>>
  /\ work = <<>>
  /\ free_vars = <<>>
  /\ constants = <<>>
  /\ operations = <<>>
  /\ input = IF layer = "MX" THEN MXBuffers(inputv) ELSE SXBuffers(inputv)
  /\ output = IF layer = "MX" THEN MXBuffers(outputv) ELSE SXBuffers(outputv)
  /\ err = "none"
  /\ executed = 0
  /\ reinit = FALSE
  /\ adphase = "idle"
  /\ call = NoCall
  /\ alg_counter = 0
  /\ swork = <<>>
  /\ tape = <<>>
  /\ tt = 0
  /\ fwd_seen = <<>>
  /\ rev_seen = NoKernel
  /\ poisoned = FALSE
  /\ dwork = <<>>
  /\ fwd_dirs = <<>>
  /\ res = <<>>
  /\ fsens = <<>>
  /\ asens = <<>>
  /\ spw = NoSp
  /\ clones = NoClones
  /\ expanded = NoFunction
  /\ adj = NoSweeps
  /\ second = NoSecond

\* init()
InitFunction(lay, ins, outs, live, temp0, work0, free0) ==
  IF lay = "MX" THEN MXInit(ins, outs, live, temp0, free0)
  ELSE SXInit(ins, outs, live, temp0, work0, free0)

DoInit ==
  /\ \E r \in {InitFunction(layer, inputv, outputv, live_variables, temp, work,
                            free_vars)} :
       /\ algorithm' = r.algorithm
       /\ work' = r.work
       /\ free_vars' = r.free_vars
       /\ constants' = r.constants
       /\ operations' = r.operations
       /\ temp' = r.temp
  /\ is_init' = TRUE
  /\ reinit' = is_init
  /\ UNCHANGED xvars
  /\ UNCHANGED <<constructed, layer, inputv, outputv, live_variables, input, output, err,
                 executed, advars>>

Next == DoInit

Spec == Init /\ [][Next]_vars

(***************************************************************************)
(* Construction: the caller hands any expressions to the constructor.      *)
(***************************************************************************)
\* The input lists handed to the constructor of the matrix layer: symbols,
\* an expression that is no symbol, an empty expression that is no symbol.
MXCtorInputs == SeqsUpTo({1, 2, 4, 15}, MaxCtorInputs)

\* The same in the scalar layer, as matrices of elements.
SXCtorInputs ==
  SeqsUpTo({<<>>, <<1>>, <<2>>, <<1, 2>>, <<1, 1>>, <<4>>}, MaxCtorInputs)

InitCtor ==
  /\ constructed = FALSE
  /\ layer \in {"MX", "SX"}
  /\ live_variables = TRUE
  /\ inputv \in IF layer = "MX" THEN MXCtorInputs ELSE SXCtorInputs
  /\ outputv \in IF layer = "MX" THEN {<<>>, <<4>>} ELSE {<<>>, <<<<4>>>>}
  /\ temp = [n \in Nodes |-> 0]
  /\ is_init = FALSE
  /\ algorithm = <<>>
  /\ work = <<>>
  /\ free_vars = <<>>
  /\ constants = <<>>
  /\ operations = <<>>
  /\ input = <<>>
  /\ output = <<>>
  /\ err = "none"
  /\ executed = 0
  /\ reinit = FALSE
  /\ adphase = "idle"
  /\ call = NoCall
  /\ alg_counter = 0
  /\ swork = <<>>
  /\ tape = <<>>
  /\ tt = 0
  /\ fwd_seen = <<>>
  /\ rev_seen = NoKernel
  /\ poisoned = FALSE
  /\ dwork = <<>>
  /\ fwd_dirs = <<>>
  /\ res = <<>>
  /\ fsens = <<>>
  /\ asens = <<>>
  /\ spw = NoSp
  /\ clones = NoClones
  /\ expanded = NoFunction
  /\ adj = NoSweeps
  /\ second = NoSecond

\* new(inputs, outputs): the function object exists when no error is raised;
\* its buffers have the shape of the inputs and of the outputs.
Construct ==
  /\ ~constructed
  /\ err = "none"
  /\ \E r \in {IF layer = "MX" THEN MXFunctionInternal(inputv, outputv, temp)
                ELSE SXFunctionInternal(inputv, outputv, temp)} :
       /\ err' = r.err
       /\ constructed' = (r.err = "none")
       /\ inputv' = r.inputv
       /\ temp' = r.temp
       /\ input' = IF r.err # "none" THEN input
                   ELSE IF layer = "MX" THEN MXBuffers(r.inputv) ELSE SXBuffers(r.inputv)
       /\ output' = IF r.err # "none" THEN output
                    ELSE IF layer = "MX" THEN MXBuffers(outputv) ELSE SXBuffers(outputv)
  /\ UNCHANGED xvars
  /\ UNCHANGED <<layer, outputv, live_variables, is_init, algorithm, work, free_vars,
                 constants, operations, executed, reinit, advars>>

NextCtor == Construct

SpecCtor == InitCtor /\ [][NextCtor]_vars

(***************************************************************************)
(* Numeric evaluation of an initialised function: the caller sets input    *)
(* buffers and calls evaluate().                                           *)
(***************************************************************************)
InputValues == 1..MaxInputValue

\* setInput(v, i): every nonzero of input i is set to v.
SetInput ==
  /\ is_init
  /\ \E i \in 1..Len(inputv), v \in InputValues :
       input' = [input EXCEPT ![i] = IF layer = "MX" THEN <<v>>
                                     ELSE [j \in 1..Len(inputv[i]) |-> <<v>>]]
  /\ UNCHANGED xvars
  /\ UNCHANGED <<constructed, layer, inputv, outputv, live_variables, temp, is_init,
                 algorithm, work,
                 free_vars, constants, operations, output, err, executed, reinit, advars>>

\* evaluate()
Evaluate ==
  /\ is_init
  /\ LET r == EvaluateBody(layer, algorithm, free_vars, work, input, output)
     IN /\ work' = r.work
        /\ output' = r.output
        /\ err' = r.err
        /\ executed' = r.executed
  /\ UNCHANGED xvars
  /\ UNCHANGED <<constructed, layer, inputv, outputv, live_variables, temp, is_init,
                 algorithm,
                 free_vars, constants, operations, input, reinit, advars>>

InitEval == Init /\ Len(outputv) <= MaxEvalOutputs

NextEval ==
  \/ ~is_init /\ DoInit
  \/ SetInput
  \/ Evaluate

SpecEval == InitEval /\ [][NextEval]_vars

(***************************************************************************)
(* MXFunctionInternal::evalMX, one tape element at a time.  A symbolic     *)
(* value is a sequence of integers: <<n, c>> is output c of node n, the    *)
(* kernel of an operator applied to argument expressions is the operator's *)
(* tag followed by the arguments, and <<>> is the empty expression MX().   *)
(* The derivative work vector dwork is local to a call and never read when *)
(* swork, the tape or the markers are written; it is not part of the state.*)
(***************************************************************************)
\* allocTape: "Loop over operation outputs, spill if necessary".
\* A faulty variant of the loop over the results below: nothing is spilled.
allocTapeNoSpill(st, el, k, c) == st

\* A faulty variant: every result is spilled, in use or not.
allocTapeSpillAlways(st, el, k, c) ==
  [st EXCEPT !.tape = @ \o SelectSeq([e \in 1..Len(el.res) |->
                                        [first |-> <<k, el.res[e]>>, second |-> <<>>]],
                                     LAMBDA t : t.first[2] >= 0)]

RECURSIVE allocTapeRes(_, _, _, _)
allocTapeRes(st, el, k, c) ==
  IF c >= Len(el.res) THEN st
  ELSE LET ind == el.res[c + 1]
       IN allocTapeRes(IF ind < 0 THEN st
                       ELSE IF ind \in st.in_use
                            THEN [st EXCEPT !.tape = Append(@, [first |-> <<k, ind>>,
                                                                second |-> <<>>])]
                            ELSE [st EXCEPT !.in_use = @ \cup {ind}],
                       el, k, c + 1)

RECURSIVE allocTapeLoop(_, _, _)
allocTapeLoop(st, alg, k) ==
  IF k >= Len(alg) THEN st
  ELSE allocTapeLoop(IF alg[k + 1].op # "OP_OUTPUT" THEN allocTapeRes(st, alg[k + 1], k, 0)
                     ELSE st,
                     alg, k + 1)

allocTape(alg) == allocTapeLoop([in_use |-> {}, tape |-> <<>>], alg, 0).tape

\* A faulty variant of the spilling below: the value is stored but the tape
\* counter stays.
SpillResInPlace(st, sw, el, k, c) ==
  [st EXCEPT !.tape = [t \in 1..Len(st.tape) |->
                         IF t = st.tt + 1 /\ st.tape[t].first[1] = k
                         THEN [st.tape[t] EXCEPT !.second = sw[st.tape[t].first[2] + 1]]
                         ELSE st.tape[t]]]

\* "Spill existing work elements if needed": st is the tape and its counter.
RECURSIVE SpillRes(_, _, _, _, _)
SpillRes(st, sw, el, k, c) ==
  IF c >= Len(el.res) THEN st
  ELSE LET r == el.res[c + 1]
       IN SpillRes(IF r >= 0 /\ st.tt < Len(st.tape) /\ st.tape[st.tt + 1].first = <<k, r>>
                   THEN [tape |-> [st.tape EXCEPT ![st.tt + 1].second = sw[r + 1]],
                         tt |-> st.tt + 1]
                   ELSE st,
                   sw, el, k, c + 1)

\* The argument of the call for input i: the declared input itself when
\* output_given, another expression of the same sparsity otherwise.
CallArg(given, ins, i) == IF given THEN <<ins[i + 1], 0>> ELSE <<Len(Arena) + 1 + i, 0>>

\* MXNode::evaluateMX without seeds: the expression of result c.
evaluateMX(n, c, args) == <<300 + n, c>> \o Flatten(args)

\* "Pointers to the arguments of the evaluation"
FwdArgs(sw, el) ==
  [i \in 1..Len(el.arg) |-> IF el.arg[i] >= 0 THEN sw[el.arg[i] + 1] ELSE <<>>]

\* The results of an operation: it->data.getOutput(i) when output_given, what
\* the kernel computes otherwise.
FwdRes(sw, el, given) ==
  [c \in 1..Len(el.res) |->
     IF el.res[c] < 0 THEN <<>>
     ELSE IF given THEN <<el.data, c - 1>>
     ELSE evaluateMX(el.data, c - 1, FwdArgs(sw, el))]

\* The work vector once the results v are stored in the result slots.
StoreRes(sw, el, v) ==
  [s \in 1..Len(sw) |->
     LET cs == {c \in 1..Len(el.res) : el.res[c] = s - 1}
     IN IF cs = {} THEN sw[s] ELSE v[CHOOSE c \in cs : \A e \in cs : e <= c]]

\* One turn of the forward loop on swork.
FwdOp(sw, el, given, ins) ==
  CASE el.op = "OP_INPUT" -> [sw EXCEPT ![el.res[1] + 1] = CallArg(given, ins, el.arg[1])]
    [] el.op = "OP_OUTPUT" -> sw
    [] el.op = "OP_PARAMETER" -> [sw EXCEPT ![el.res[1] + 1] = <<el.data, 0>>]
    [] OTHER -> StoreRes(sw, el, FwdRes(sw, el, given))

\* "Mark spilled work vector elements to be recovered": st is work_ and the
\* tape counter, c runs over the results in reverse.
RECURSIVE MarkRes(_, _, _, _, _)
MarkRes(st, tp, el, k, c) ==
  IF c < 0 THEN st
  ELSE LET r == el.res[c + 1]
       IN MarkRes(IF r >= 0 /\ st.tt >= 0 /\ tp[st.tt + 1].first = <<k, r>>
                  THEN [work |-> [st.work EXCEPT ![r + 1].second = 1 + st.tt],
                        tt |-> st.tt - 1]
                  ELSE st,
                  tp, el, k, c - 1)

\* "Get the arguments of the evaluation": from the tape when the slot is
\* marked, from the work vector otherwise.
RevArgs(w, sw, tp, el) ==
  [i \in 1..Len(el.arg) |->
     IF el.arg[i] < 0 THEN <<>>
     ELSE LET tmp == w[el.arg[i] + 1].second
          IN IF tmp = 0 THEN sw[el.arg[i] + 1] ELSE tp[tmp].second]

\* "Result of the evaluation"
RevRes(sw, el) ==
  [c \in 1..Len(el.res) |-> IF el.res[c] >= 0 THEN sw[el.res[c] + 1] ELSE <<>>]

\* "Recover the spilled elements to the work vector for later access": st is
\* work_ and swork.
RECURSIVE RecoverRes(_, _, _, _)
RecoverRes(st, tp, el, c) ==
  IF c < 0 THEN st
  ELSE LET r == el.res[c + 1]
       IN RecoverRes(IF r >= 0 /\ st.work[r + 1].second > 0
                     THEN [work |-> [st.work EXCEPT ![r + 1].second = 0],
                           swork |-> [st.swork EXCEPT ![r + 1] = tp[st.work[r + 1].second].second]]
                     ELSE st,
                     tp, el, c - 1)

\* The forward derivatives.  A seed or a sensitivity is known by its kind and
\* its sparsity: MX() ("null"), MX::sparse(shape) ("zero"), a seed of the
\* caller with or without nonzeros ("seed", "emptyseed"), or what a kernel
\* computed ("sens").
Null == [kind |-> "null", sp |-> "none"]

Zero(sp) == [kind |-> "zero", sp |-> sp]

Seed(nonempty, sp) == [kind |-> IF nonempty THEN "seed" ELSE "emptyseed", sp |-> sp]

Sens(sp) == [kind |-> "sens", sp |-> sp]

\* The forward seeds of a call with n inputs: whether the seed of direction d
\* for input i has a nonzero.
FwdSeeds(n) == SeqsUpTo([1..n -> BOOLEAN], MaxDirs)

\* A faulty variant of the test below: the forward sweep is never skipped.
NeverSkipFwd(fseed) == FALSE

\* "Skip forward sensitivities if no nonempty seeds"
SkipFwd(fseed) == \A d \in 1..Len(fseed) : \A j \in 1..Len(fseed[d]) : ~fseed[d][j]

\* The number of directions of the forward sweep: "Skip if trivial".
NumFwd(cl) == IF cl.skip_fwd THEN 0 ELSE Len(cl.fseed)

\* "Allocate forward sensitivities"
AllocFsens(fseed, outs) ==
  [d \in 1..Len(fseed) |->
     [i \in 1..Len(outs) |-> IF SkipFwd(fseed) THEN Zero(Arena[outs[i]].sp[1]) ELSE Null]]

\* "Give zero seed if null", for the arguments and then for the results of an
\* operation, over the directions in increasing order: the derivatives of
\* slot s (0-based) once the pointers of the kernel are set up.
GiveZeroSeeds(dw, w, el, s) ==
  [d \in 1..Len(dw[s + 1]) |->
     IF dw[s + 1][d].kind # "null" THEN dw[s + 1][d]
     ELSE IF s \in Range(el.arg)
          THEN IF d = 1 \/ dw[s + 1][1].kind = "null" THEN Zero(w[s + 1].sp)
               ELSE dw[s + 1][1]
          ELSE Zero(w[s + 1].sp)]

\* purgeSeeds: the directions with a nonzero in the seed of some argument.
NonzeroDirs(dw, el, nfdir) ==
  {d \in 1..nfdir : \E i \in 1..Len(el.arg) :
     el.arg[i] >= 0 /\ dw[el.arg[i] + 1][d].kind \in {"seed", "sens"}}

\* The directions the kernel of the operation is given seeds for: all of
\* them, but for a call node those that are not purged.
KernelDirs(dw, el, nfdir, purge) ==
  IF Arena[el.data].op = "OP_CALL"
  THEN IF NonzeroDirs(dw, el, nfdir) = {} THEN {}
       ELSE IF purge THEN NonzeroDirs(dw, el, nfdir) ELSE 1..nfdir
  ELSE 1..nfdir

\* One turn of the forward loop on dwork and fsens; dirs is the set of
\* directions the kernel was given seeds for.
FwdDeriv(dw, fs, w, el, cl, ins) ==
  CASE el.op = "OP_INPUT" ->
         [dwork |-> [dw EXCEPT ![el.res[1] + 1] =
                       [d \in 1..NumFwd(cl) |->
                          Seed(cl.fseed[d][el.arg[1] + 1], Arena[ins[el.arg[1] + 1]].sp[1])]],
          fsens |-> fs, dirs |-> {}]
    [] el.op = "OP_OUTPUT" ->
         [dwork |-> dw,
          fsens |-> [d \in 1..Len(fs) |->
                       IF d <= NumFwd(cl)
                       THEN [fs[d] EXCEPT ![el.res[1] + 1] = dw[el.arg[1] + 1][d]]
                       ELSE fs[d]],
          dirs |-> {}]
    [] el.op = "OP_PARAMETER" ->
         [dwork |-> [dw EXCEPT ![el.res[1] + 1] = [d \in 1..NumFwd(cl) |-> Null]],
          fsens |-> fs, dirs |-> {}]
    [] OTHER ->
         LET Called(zs, dirs) ==
               [dwork |-> [s \in 1..Len(dw) |->
                             IF s - 1 \in Range(el.res)
                             THEN [d \in 1..NumFwd(cl) |->
                                     IF d \in dirs THEN Sens(w[s].sp) ELSE zs[s][d]]
                             ELSE zs[s]],
                fsens |-> fs, dirs |-> dirs]
             Pointed(zs) ==
               Called(zs, IF cl.output_given /\ NumFwd(cl) = 0 THEN {}
                          ELSE KernelDirs(zs, el, NumFwd(cl), cl.purge))
         IN Pointed([s \in 1..Len(dw) |->
                       IF s - 1 \in Range(el.arg) \cup Range(el.res)
                       THEN GiveZeroSeeds(dw, w, el, s - 1) ELSE dw[s]])

\* Whether the element is an operation, whose kernel is called.
IsOperation(el) == el.op \notin {"OP_INPUT", "OP_OUTPUT", "OP_PARAMETER"}

fnvars == <<constructed, layer, inputv, outputv, live_variables, temp, is_init, algorithm,
            free_vars, constants, operations, input, output, err, executed, reinit>>

\* The call is over: its local variables are gone.
Return(phase) ==
  /\ adphase' = phase
  /\ alg_counter' = 0
  /\ swork' = <<>>
  /\ tape' = <<>>
  /\ tt' = 0
  /\ fwd_seen' = <<>>
  /\ rev_seen' = NoKernel
  /\ dwork' = <<>>
  /\ fwd_dirs' = <<>>

\* evalMX(arg, res, fseed, fsens, aseed, asens) up to the forward loop.  Without
\* inputs the arguments trivially match the declared inputs.
CallEvalMX ==
  /\ is_init
  /\ layer = "MX"
  /\ adphase = "idle"
  /\ \E given, noadj, purge \in BOOLEAN, fseed \in FwdSeeds(Len(inputv)) :
       /\ inputv = <<>> => given
       /\ call' = [output_given |-> given, skip_fwd |-> SkipFwd(fseed), skip_adj |-> noadj,
                   made |-> TRUE, fseed |-> fseed, purge |-> purge]
       /\ res' = IF given THEN [i \in 1..Len(outputv) |-> <<outputv[i], 0>>]
                 ELSE Fill(Len(outputv), <<>>)
       /\ fsens' = AllocFsens(fseed, outputv)
       /\ IF given /\ SkipFwd(fseed) /\ noadj
          THEN /\ adphase' = "returned"
               /\ UNCHANGED <<alg_counter, swork, tape, tt, fwd_seen, rev_seen, dwork,
                              fwd_dirs>>
          ELSE /\ adphase' = "fwd"
               /\ alg_counter' = 0
               /\ swork' = Fill(Len(work), <<>>)
               /\ tape' = allocTape(algorithm)
               /\ tt' = 0
               /\ fwd_seen' = Fill(Len(algorithm), NoKernel)
               /\ rev_seen' = NoKernel
               /\ dwork' = Fill(Len(work),
                                Fill(IF SkipFwd(fseed) THEN 0 ELSE Len(fseed), Null))
               /\ fwd_dirs' = Fill(Len(algorithm), {})
  /\ UNCHANGED xvars
  /\ UNCHANGED <<fnvars, work, poisoned, asens>>
(***************************************************************************)
\* One turn of "Loop over computational nodes in forward order".
FwdStep ==
  /\ adphase = "fwd"
  /\ alg_counter < Len(algorithm)
  /\ LET el == algorithm[alg_counter + 1]
         sp == IF ~call.skip_adj /\ el.op # "OP_OUTPUT"
               THEN SpillRes([tape |-> tape, tt |-> tt], swork, el, alg_counter, 0)
               ELSE [tape |-> tape, tt |-> tt]
     IN /\ tape' = sp.tape
        /\ tt' = sp.tt
        /\ swork' = FwdOp(swork, el, call.output_given, inputv)
        /\ fwd_seen' = IF IsOperation(el)
                       THEN [fwd_seen EXCEPT ![alg_counter + 1] =
                               [k |-> alg_counter, arg |-> FwdArgs(swork, el),
                                res |-> FwdRes(swork, el, call.output_given)]]
                       ELSE fwd_seen
        /\ res' = IF el.op = "OP_OUTPUT" /\ ~call.output_given
                  THEN [res EXCEPT ![el.res[1] + 1] = swork[el.arg[1] + 1]]
                  ELSE res
        /\ \E dv \in {FwdDeriv(dwork, fsens, work, el, call, inputv)} :
             /\ dwork' = dv.dwork
             /\ fsens' = dv.fsens
             /\ fwd_dirs' = [fwd_dirs EXCEPT ![alg_counter + 1] = dv.dirs]
  /\ alg_counter' = alg_counter + 1
  /\ UNCHANGED xvars
  /\ UNCHANGED <<fnvars, work, adphase, call, rev_seen, poisoned, asens>>

\* The forward loop is over: the call returns, or the reverse loop starts
\* ("tt--").
FwdEnd ==
  /\ adphase = "fwd"
  /\ alg_counter = Len(algorithm)
  /\ IF call.skip_adj
     THEN Return("returned")
     ELSE /\ adphase' = "rev"
          /\ alg_counter' = Len(algorithm) - 1
          /\ tt' = tt - 1
          /\ dwork' = <<>>
          /\ UNCHANGED <<swork, tape, fwd_seen, rev_seen, fwd_dirs>>
  /\ UNCHANGED xvars
  /\ UNCHANGED <<fnvars, work, call, poisoned, res, fsens, asens>>

\* One turn of "Loop over computational nodes in reverse order".
RevStep ==
  /\ adphase = "rev"
  /\ alg_counter >= 0
  /\ LET el == algorithm[alg_counter + 1]
         mk == IF el.op # "OP_OUTPUT"
               THEN MarkRes([work |-> work, tt |-> tt], tape, el, alg_counter,
                            Len(el.res) - 1)
               ELSE [work |-> work, tt |-> tt]
         rc == IF el.op # "OP_OUTPUT"
               THEN RecoverRes([work |-> mk.work, swork |-> swork], tape, el,
                               Len(el.res) - 1)
               ELSE [work |-> mk.work, swork |-> swork]
     IN /\ tt' = mk.tt
        /\ rev_seen' = IF IsOperation(el)
                       THEN [k |-> alg_counter, arg |-> RevArgs(mk.work, swork, tape, el),
                             res |-> RevRes(swork, el)]
                       ELSE rev_seen
        /\ work' = rc.work
        /\ swork' = rc.swork
  /\ alg_counter' = alg_counter - 1
  /\ UNCHANGED xvars
  /\ UNCHANGED <<fnvars, adphase, call, tape, fwd_seen, poisoned, dwork, fwd_dirs, res,
                 fsens, asens>>

\* The reverse loop is over: the call returns.
RevEnd ==
  /\ adphase = "rev"
  /\ alg_counter < 0
  /\ Return("returned")
  /\ UNCHANGED xvars
  /\ UNCHANGED <<fnvars, work, call, poisoned, res, fsens, asens>>

\* The kernel of an operation raises an error, which ends the call: in the
\* forward loop after the spilling, in the reverse loop after the marking.
KernelError ==
  /\ adphase \in {"fwd", "rev"}
  /\ alg_counter >= 0
  /\ alg_counter < Len(algorithm)
  /\ LET el == algorithm[alg_counter + 1]
     IN /\ IsOperation(el)
        /\ adphase = "fwd" => (~call.output_given \/ ~call.skip_fwd)
        /\ work' = IF adphase = "rev"
                   THEN MarkRes([work |-> work, tt |-> tt], tape, el, alg_counter,
                                Len(el.res) - 1).work
                   ELSE work
  /\ poisoned' = (poisoned \/ adphase = "rev")
  /\ Return("idle")
  /\ call' = NoCall
  /\ res' = <<>>
  /\ fsens' = <<>>
  /\ UNCHANGED xvars
  /\ UNCHANGED <<fnvars, asens>>

\* The caller is done with the results of the call: its vectors res, fsens
\* and asens are gone.
Release ==
  /\ adphase = "returned"
  /\ adphase' = "idle"
  /\ call' = NoCall
  /\ res' = <<>>
  /\ fsens' = <<>>
  /\ asens' = <<>>
  /\ UNCHANGED xvars
  /\ UNCHANGED <<fnvars, work, alg_counter, swork, tape, tt, fwd_seen, rev_seen, poisoned,
                 dwork, fwd_dirs>>

(***************************************************************************)
(* SXFunctionInternal::evalSXsparse.  A scalar expression is known by the  *)
(* node it is (0 for a node made during the call) and by its value at a    *)
(* fixed point: the symbol n has the value n + 1, and the elementary       *)
(* functions and their derivatives are fixed integer functions, sin and    *)
(* cos being stand-ins.  The work vector s_work_ is written before it is   *)
(* read in every sweep; the call starts from any content, here Stale.      *)
(***************************************************************************)
SinVal(x) == ((x * x) + 1) % 5

CosVal(x) == ((x + 2) % 5) + 1

\* CASADI_MATH_FUN_BUILTIN on values.
FunBuiltin(op, x, y) ==
  CASE op = "OP_ADD" -> x + y
    [] op = "OP_MUL" -> x * y
    [] OTHER -> SinVal(x)

\* CASADI_MATH_DER_BUILTIN on values: the partial derivatives d[0], d[1].
DerBuiltin(op, x, y, f) ==
  CASE op = "OP_ADD" -> <<1, 1>>
    [] op = "OP_MUL" -> <<y, x>>
    [] OTHER -> <<CosVal(x), 0>>

\* The value of the expression of a node.
RECURSIVE NodeVal(_)
NodeVal(n) ==
  CASE Arena[n].op = "OP_PARAMETER" -> n + 1
    [] Arena[n].op = "OP_CONST" -> Arena[n].d
    [] OTHER -> FunBuiltin(Arena[n].op, NodeVal(SXDep(n, 0)), NodeVal(SXDep(n, 1)))

SXElement(n) == [node |-> n, val |-> NodeVal(n)]

Stale == [node |-> 0, val |-> 1000]

\* f.assignIfDuplicate(stored, depth): f becomes the stored node when it is
\* the same operation on the same nodes.
assignIfDuplicate(f, x, y, stored) ==
  IF x.node # 0 /\ x.node = SXDep(stored, 0) /\ y.node = SXDep(stored, 1)
  THEN [f EXCEPT !.node = stored] ELSE f

\* "Evaluate algorithm": one turn of the loop.  st holds s_work_, res, the
\* tape s_pdwork of partial derivatives and the three iterators.
SXEvalEl(st, el, arg, given, taping, frees, consts, ops) ==
  CASE el.op = "OP_INPUT" ->
         [st EXCEPT !.work = Put(@, el.i0, arg[el.i1 + 1][el.i2 + 1])]
    [] el.op = "OP_OUTPUT" ->
         [st EXCEPT !.res = [@ EXCEPT ![el.i0 + 1] = Put(@, el.i2, st.work[el.i1 + 1])]]
    [] el.op = "OP_CONST" ->
         [st EXCEPT !.work = Put(@, el.i0, SXElement(consts[st.c + 1])), !.c = @ + 1]
    [] el.op = "OP_PARAMETER" ->
         [st EXCEPT !.work = Put(@, el.i0, SXElement(frees[st.p + 1])), !.p = @ + 1]
    [] OTHER ->
         LET Saved(x, y, f) ==
               [st EXCEPT !.work = Put(@, el.i0, f), !.b = @ + 1,
                          !.pd = IF taping
                                 THEN Append(@, DerBuiltin(el.op, x.val, y.val, f.val))
                                 ELSE @]
             Evaluated(x, y) ==
               Saved(x, y,
                     IF given THEN SXElement(ops[st.b + 1])
                     ELSE assignIfDuplicate(
                            [node |-> 0, val |-> FunBuiltin(el.op, x.val, y.val)],
                            x, y, ops[st.b + 1]))
         IN Evaluated(st.work[el.i1 + 1], st.work[el.i2 + 1])

RECURSIVE SXEvalLoop(_, _, _, _, _, _, _, _, _)
SXEvalLoop(st, alg, k, arg, given, taping, frees, consts, ops) ==
  IF k >= Len(alg) THEN st
  ELSE SXEvalLoop(SXEvalEl(st, alg[k + 1], arg, given, taping, frees, consts, ops),
                  alg, k + 1, arg, given, taping, frees, consts, ops)

\* "Calculate forward sensitivities": one direction.  st holds s_work_ (its
\* values), the sensitivities of the direction and the place in the tape of
\* partial derivatives.
SXFwdEl(st, el, pd, seed) ==
  CASE el.op = "OP_INPUT" ->
         [st EXCEPT !.work = Put(@, el.i0, seed[el.i1 + 1][el.i2 + 1])]
    [] el.op = "OP_OUTPUT" ->
         [st EXCEPT !.sens = [@ EXCEPT ![el.i0 + 1] = Put(@, el.i2, st.work[el.i1 + 1])]]
    [] el.op \in {"OP_CONST", "OP_PARAMETER"} ->
         [st EXCEPT !.work = Put(@, el.i0, 0)]
    [] ndeps(el.op) = 2 ->
         [st EXCEPT !.work = Put(@, el.i0, pd[st.t + 1][1] * st.work[el.i1 + 1]
                                           + pd[st.t + 1][2] * st.work[el.i2 + 1]),
                    !.t = @ + 1]
    [] OTHER ->
         [st EXCEPT !.work = Put(@, el.i0, pd[st.t + 1][1] * st.work[el.i1 + 1]),
                    !.t = @ + 1]

RECURSIVE SXFwdLoop(_, _, _, _, _)
SXFwdLoop(st, alg, k, pd, seed) ==
  IF k >= Len(alg) THEN st
  ELSE SXFwdLoop(SXFwdEl(st, alg[k + 1], pd, seed), alg, k + 1, pd, seed)

\* The loop over the forward directions: st holds s_work_ and fsens.
RECURSIVE SXFwdDirs(_, _, _, _, _, _)
SXFwdDirs(st, alg, pd, fseed, dir, empty) ==
  IF dir >= Len(fseed) THEN st
  ELSE LET Swept(r) == [work |-> r.work, fsens |-> Append(st.fsens, r.sens)]
       IN SXFwdDirs(Swept(SXFwdLoop([work |-> st.work, sens |-> empty, t |-> 0],
                                    alg, 0, pd, fseed[dir + 1])),
                    alg, pd, fseed, dir + 1, empty)

\* The tape of partial derivatives read as the forward sweep reads it.
TapeFromStart(pd, t) == pd[t + 1]

\* The reverse iterator it2 over s_pdwork, t steps after rbegin().
TapeFromEnd(pd, t) == pd[Len(pd) - t]

\* A faulty variant of one turn of the reverse loop: the slot of an input is
\* read into asens and left as it is.
SXAdjElKeep(st, el, pd, seed) ==
  CASE el.op = "OP_INPUT" ->
         [st EXCEPT !.sens = [@ EXCEPT ![el.i1 + 1] = Put(@, el.i2, st.work[el.i0 + 1])]]
    [] el.op = "OP_OUTPUT" ->
         [st EXCEPT !.work = Inc(@, el.i1, seed[el.i0 + 1][el.i2 + 1])]
    [] el.op \in {"OP_CONST", "OP_PARAMETER"} ->
         [st EXCEPT !.work = Put(@, el.i0, 0)]
    [] ndeps(el.op) = 2 ->
         [st EXCEPT !.work = Inc(Inc(Put(@, el.i0, 0), el.i1,
                                     pd[Len(pd) - st.t][1] * st.work[el.i0 + 1]),
                                 el.i2, pd[Len(pd) - st.t][2] * st.work[el.i0 + 1]),
                    !.t = @ + 1]
    [] OTHER ->
         [st EXCEPT !.work = Inc(Put(@, el.i0, 0), el.i1,
                                 pd[Len(pd) - st.t][1] * st.work[el.i0 + 1]),
                    !.t = @ + 1]

\* "Calculate adjoint sensitivities": one turn of the reverse loop of one
\* direction; t counts the partial derivatives from the end of the tape.
SXAdjEl(st, el, pd, seed) ==
  CASE el.op = "OP_INPUT" ->
         [st EXCEPT !.sens = [@ EXCEPT ![el.i1 + 1] = Put(@, el.i2, st.work[el.i0 + 1])],
                    !.work = Put(@, el.i0, 0)]
    [] el.op = "OP_OUTPUT" ->
         [st EXCEPT !.work = Inc(@, el.i1, seed[el.i0 + 1][el.i2 + 1])]
    [] el.op \in {"OP_CONST", "OP_PARAMETER"} ->
         [st EXCEPT !.work = Put(@, el.i0, 0)]
    [] ndeps(el.op) = 2 ->
         [st EXCEPT !.work = Inc(Inc(Put(@, el.i0, 0), el.i1,
                                     TapeFromEnd(pd, st.t)[1] * st.work[el.i0 + 1]),
                                 el.i2, TapeFromEnd(pd, st.t)[2] * st.work[el.i0 + 1]),
                    !.t = @ + 1]
    [] OTHER ->
         [st EXCEPT !.work = Inc(Put(@, el.i0, 0), el.i1,
                                 TapeFromEnd(pd, st.t)[1] * st.work[el.i0 + 1]),
                    !.t = @ + 1]

RECURSIVE SXAdjLoop(_, _, _, _, _)
SXAdjLoop(st, alg, k, pd, seed) ==
  IF k < 0 THEN st
  ELSE SXAdjLoop(SXAdjEl(st, alg[k + 1], pd, seed), alg, k - 1, pd, seed)

\* The loop over the adjoint directions: st holds s_work_ and asens, and
\* keeps what s_work_ was after each direction.
RECURSIVE SXAdjDirs(_, _, _, _, _, _)
SXAdjDirs(st, alg, pd, aseed, dir, empty) ==
  IF dir >= Len(aseed) THEN st
  ELSE LET Swept(r) == [work |-> r.work, asens |-> Append(st.asens, r.sens),
                        after |-> Append(st.after, r.work)]
       IN SXAdjDirs(Swept(SXAdjLoop([work |-> st.work, sens |-> empty, t |-> 0],
                                    alg, Len(alg) - 1, pd, aseed[dir + 1])),
                    alg, pd, aseed, dir + 1, empty)

\* The nonzeros of a list of matrices, as pairs (matrix, nonzero), in order.
RECURSIVE Nonzeros(_, _)
Nonzeros(ms, i) ==
  IF i >= Len(ms) THEN <<>>
  ELSE [j \in 1..Len(ms[i + 1]) |-> <<i, j - 1>>] \o Nonzeros(ms, i + 1)

\* Matrices of the shape of ms whose nonzeros are v.
Shaped(ms, v) == [i \in 1..Len(ms) |-> [j \in 1..Len(ms[i]) |-> v]]

\* The unit seeds over the nonzeros of ms: direction d is 1 at the d-th
\* nonzero and 0 elsewhere.
UnitSeeds(ms) ==
  [d \in 1..Len(Nonzeros(ms, 0)) |->
     [i \in 1..Len(ms) |-> [j \in 1..Len(ms[i]) |->
        IF Nonzeros(ms, 0)[d] = <<i - 1, j - 1>> THEN 1 ELSE 0]]]

\* The caller's res1 before the call: nothing of the function.
CopyNothing(outs) == Shaped(outs, Stale)

\* "Copy output if known": the stored output expressions.
CopyOutput(outs) == [i \in 1..Len(outs) |-> [j \in 1..Len(outs[i]) |-> SXElement(outs[i][j])]]

\* The arguments of a call: the declared input elements, but for the
\* nonzeros in differ, where another expression is passed.
SXCallArg(ins, differ) ==
  [i \in 1..Len(ins) |-> [j \in 1..Len(ins[i]) |->
     IF <<i - 1, j - 1>> \in differ
     THEN [node |-> 0, val |-> NodeVal(ins[i][j]) + 1]
     ELSE SXElement(ins[i][j])]]

\* The whole of evalSXsparse for the arguments arg and the seeds fseed and
\* aseed: res1, the stored outputs as the call leaves them, fsens and asens.
evalSXsparse(alg, ins, outs, frees, consts, ops, nwork, arg, given, fseed, aseed) ==
  LET taping == Len(fseed) > 0 \/ Len(aseed) > 0
      Adjoint(ev, fw, ad) ==
        [res |-> IF given THEN CopyOutput(outs) ELSE ev.res,
         outputv |-> IF given THEN [i \in 1..Len(outs) |->
                                      [j \in 1..Len(outs[i]) |-> ev.res[i][j].node]]
                     ELSE outs,
         fsens |-> fw.fsens, asens |-> ad.asens,
         start |-> ad.start, after |-> ad.after]
      Forward(ev, fw) ==
        Adjoint(ev, fw,
                IF ~taping THEN [asens |-> <<>>, start |-> <<>>, after |-> <<>>]
                ELSE LET Sweeps(w) ==
                           [start |-> w] @@
                           SXAdjDirs([work |-> w, asens |-> <<>>, after |-> <<>>],
                                     alg, ev.pd, aseed, 0, Shaped(ins, 0))
                     IN Sweeps(IF Len(aseed) > 0 THEN Fill(nwork, 0) ELSE fw.work))
      Evaluated(ev) ==
        Forward(ev,
                IF ~taping THEN [fsens |-> <<>>]
                ELSE SXFwdDirs([work |-> [s \in 1..nwork |-> ev.work[s].val],
                                fsens |-> <<>>],
                               alg, ev.pd, fseed, 0, Shaped(outs, 0)))
  IN Evaluated(SXEvalLoop([work |-> Fill(nwork, Stale),
                           res |-> IF given THEN CopyOutput(outs) ELSE Shaped(outs, Stale),
                           pd |-> <<>>, b |-> 0, c |-> 0, p |-> 0],
                          alg, 0, arg, given, taping, frees, consts, ops))

(***************************************************************************)
(* The specification of symbolic evaluation in both layers.                *)
(***************************************************************************)
\* A call of evalSXsparse.  The caller passes fsens with one entry for each
\* forward direction, so that nfdir is the number of forward seeds; the
\* seeds are the unit seeds or none.  output_given is what the comparison of
\* the arguments with the declared inputs finds.
EvalSXsparse ==
  /\ is_init
  /\ layer = "SX"
  /\ adphase = "idle"
  /\ \E differ \in SUBSET Range(Nonzeros(inputv, 0)), wantf, wanta \in BOOLEAN :
       \E r \in {evalSXsparse(algorithm, inputv, outputv, free_vars, constants, operations,
                              Len(work), SXCallArg(inputv, differ), differ = {},
                              IF wantf THEN UnitSeeds(inputv) ELSE <<>>,
                              IF wanta THEN UnitSeeds(outputv) ELSE <<>>)} :
         /\ call' = [output_given |-> differ = {}, skip_fwd |-> ~wantf, skip_adj |-> ~wanta,
                     made |-> TRUE, fseed |-> <<>>, purge |-> FALSE]
         /\ res' = r.res
         /\ outputv' = r.outputv
         /\ fsens' = r.fsens
         /\ asens' = r.asens
         /\ adj' = [arg |-> SXCallArg(inputv, differ),
                    aseed |-> IF wanta THEN UnitSeeds(outputv) ELSE <<>>,
                    start |-> r.start, after |-> r.after]
  /\ adphase' = "returned"
  /\ UNCHANGED <<spw, clones, expanded, second>>
  /\ UNCHANGED <<constructed, layer, inputv, live_variables, temp, is_init, algorithm,
                 free_vars, constants, operations, input, output, err, executed, reinit,
                 work, alg_counter, swork, tape, tt, fwd_seen, rev_seen, poisoned,
                 dwork, fwd_dirs>>

InitAD == Init /\ Len(outputv) <= MaxEvalOutputs

NextAD ==
  \/ ~is_init /\ DoInit
  \/ CallEvalMX
  \/ FwdStep
  \/ FwdEnd
  \/ RevStep
  \/ RevEnd
  \/ KernelError
  \/ Release
  \/ EvalSXsparse

SpecAD == InitAD /\ [][NextAD]_vars

(***************************************************************************)
(* Several adjoint directions in the scalar layer.                         *)
(***************************************************************************)
\* The last call was a scalar-layer call with more than one adjoint seed.
SeveralAdjointDirections ==
  layer = "SX" /\ adphase = "returned" /\ Len(adj.aseed) > 1

AllZero(w) == \A s \in 1..Len(w) : w[s] = 0

\* The adjoint sensitivities of a call with the one seed sd.
AloneAdjoint(sd) ==
  evalSXsparse(algorithm, inputv, outputv, free_vars, constants, operations, Len(work),
               adj.arg, call.output_given, <<>>, <<sd>>).asens[1]

\* C30: in a scalar-layer call with several adjoint directions the work
\* vector is all zero before the first direction and after the reverse
\* sweep of every direction, and the adjoint sensitivities of each direction
\* are those of a call with the seed of that direction alone.
C30_EachSweepLeavesWorkZero ==
  SeveralAdjointDirections =>
    /\ Len(adj.start) = Len(work)
    /\ AllZero(adj.start)
    /\ Len(adj.after) = Len(adj.aseed)
    /\ Len(asens) = Len(adj.aseed)
    /\ \A d \in 1..Len(adj.aseed) :
         /\ Len(adj.after[d]) = Len(work)
         /\ AllZero(adj.after[d])
         /\ asens[d] = AloneAdjoint(adj.aseed[d])

\* A call with two adjoint directions whose sensitivities differ and are not
\* all zero, on a function with slot reuse.
C30_Witness ==
  /\ SeveralAdjointDirections
  /\ live_variables
  /\ asens[1] # asens[2]
  /\ \E i \in 1..Len(asens[2]) : \E j \in 1..Len(asens[2][i]) : asens[2][i][j] # 0
  /\ \E i \in 1..Len(asens[1]) : \E j \in 1..Len(asens[1][i]) : asens[1][i][j] # 0

(***************************************************************************)
(* MXFunctionInternal::print of a tape element, up to the results: the     *)
(* text written to the stream, as the sequence of the pieces written.      *)
(***************************************************************************)
\* A faulty variant of the printing of one result: the slot is printed
\* whatever it is.
printSlot(r) == <<"@", ToString(r)>>

\* One result of an element with several results: "@" and the slot, or NULL.
printResult(r) == IF r >= 0 THEN <<"@", ToString(r)>> ELSE <<"NULL">>

RECURSIVE printResults(_, _)
printResults(rs, i) ==
  IF i >= Len(rs) THEN <<>>
  ELSE (IF i # 0 THEN <<", ">> ELSE <<>>) \o printResult(rs[i + 1])
         \o printResults(rs, i + 1)

\* The results of an element that is neither an output nor a setnonzeros or
\* addnonzeros element.
printRes(el) ==
  IF Len(el.res) = 1 THEN <<"@", ToString(el.res[1]), " = ">>
  ELSE <<"{">> \o printResults(el.res, 0) \o <<"} = ">>

(***************************************************************************)
(* SXFunctionInternal::spInit and spEvaluate.  The pass reads the numeric  *)
(* work vector and the input and output buffers as words of bits, bvec_t;  *)
(* a word is the set of the positions of its bits that are 1, and | is the *)
(* union.  What the words hold before the caller writes them is the bits   *)
(* of whatever numbers were there: any word, the same in every place.      *)
(***************************************************************************)
\* The bits of a word.
MaskBits == 2

bvec_t == SUBSET (0..(MaskBits - 1))

\* spInit(fwd) on the work vector.
spInit(fwd, iwork) == IF ~fwd THEN Fill(Len(iwork), {}) ELSE iwork

\* A faulty variant of a forward turn: an operation takes the word of its
\* first argument only.
spFwdElFirst(st, el) ==
  CASE el.op \in {"OP_CONST", "OP_PARAMETER"} ->
         [st EXCEPT !.iwork = Put(@, el.i0, {})]
    [] el.op = "OP_INPUT" ->
         [st EXCEPT !.iwork = Put(@, el.i0, st.input[el.i1 + 1][el.i2 + 1])]
    [] el.op = "OP_OUTPUT" ->
         [st EXCEPT !.output = [@ EXCEPT ![el.i0 + 1] = Put(@, el.i2, st.iwork[el.i1 + 1])]]
    [] OTHER ->
         [st EXCEPT !.iwork = Put(@, el.i0, st.iwork[el.i1 + 1])]

\* "Propagate sparsity forward": one turn of the loop.
spFwdEl(st, el) ==
  CASE el.op \in {"OP_CONST", "OP_PARAMETER"} ->
         [st EXCEPT !.iwork = Put(@, el.i0, {})]
    [] el.op = "OP_INPUT" ->
         [st EXCEPT !.iwork = Put(@, el.i0, st.input[el.i1 + 1][el.i2 + 1])]
    [] el.op = "OP_OUTPUT" ->
         [st EXCEPT !.output = [@ EXCEPT ![el.i0 + 1] = Put(@, el.i2, st.iwork[el.i1 + 1])]]
    [] OTHER ->
         [st EXCEPT !.iwork = Put(@, el.i0, st.iwork[el.i1 + 1] \cup st.iwork[el.i2 + 1])]

RECURSIVE spFwdLoop(_, _, _)
spFwdLoop(st, alg, k) ==
  IF k >= Len(alg) THEN st ELSE spFwdLoop(spFwdEl(st, alg[k + 1]), alg, k + 1)

\* iwork[s] |= m
OrInto(w, s, m) == [w EXCEPT ![s + 1] = @ \cup m]

\* A faulty variant of a backward turn: the word of the result of an
\* operation is read and left as it is.
spAdjElKeep(st, el) ==
  CASE el.op \in {"OP_CONST", "OP_PARAMETER"} ->
         [st EXCEPT !.iwork = Put(@, el.i0, {})]
    [] el.op = "OP_INPUT" ->
         [st EXCEPT !.input = [@ EXCEPT ![el.i1 + 1] = Put(@, el.i2, st.iwork[el.i0 + 1])],
                    !.iwork = Put(@, el.i0, {})]
    [] el.op = "OP_OUTPUT" ->
         [st EXCEPT !.iwork = OrInto(@, el.i1, st.output[el.i0 + 1][el.i2 + 1])]
    [] OTHER ->
         [st EXCEPT !.iwork = OrInto(OrInto(@, el.i1, st.iwork[el.i0 + 1]),
                                     el.i2, st.iwork[el.i0 + 1])]

\* "Propagate sparsity backward": one turn of the loop.
spAdjEl(st, el) ==
  CASE el.op \in {"OP_CONST", "OP_PARAMETER"} ->
         [st EXCEPT !.iwork = Put(@, el.i0, {})]
    [] el.op = "OP_INPUT" ->
         [st EXCEPT !.input = [@ EXCEPT ![el.i1 + 1] = Put(@, el.i2, st.iwork[el.i0 + 1])],
                    !.iwork = Put(@, el.i0, {})]
    [] el.op = "OP_OUTPUT" ->
         [st EXCEPT !.iwork = OrInto(@, el.i1, st.output[el.i0 + 1][el.i2 + 1])]
    [] OTHER ->
         [st EXCEPT !.iwork = OrInto(OrInto(Put(@, el.i0, {}), el.i1, st.iwork[el.i0 + 1]),
                                     el.i2, st.iwork[el.i0 + 1])]

RECURSIVE spAdjLoop(_, _, _)
spAdjLoop(st, alg, k) ==
  IF k < 0 THEN st ELSE spAdjLoop(spAdjEl(st, alg[k + 1]), alg, k - 1)

\* spEvaluate(fwd) on the work vector and the buffers st.
spEvaluate(fwd, alg, st) ==
  IF fwd THEN spFwdLoop(st, alg, 0) ELSE spAdjLoop(st, alg, Len(alg) - 1)

\* A call of spInit, on the memory as the numeric use of the function left
\* it.
SpInit ==
  /\ is_init
  /\ layer = "SX"
  /\ spw.phase = "idle"
  /\ \E fwd \in BOOLEAN, m \in bvec_t :
       spw' = [NoSp EXCEPT !.phase = "init", !.fwd = fwd,
                           !.iwork = spInit(fwd, Fill(Len(work), m)),
                           !.input = Shaped(inputv, m), !.output = Shaped(outputv, m)]
  /\ UNCHANGED <<clones, expanded, adj, second>>
  /\ UNCHANGED <<fnvars, work, advars>>

\* The caller writes its seeds: the words of the inputs for a forward pass,
\* the words of the outputs for a backward pass.
SpSeed ==
  /\ spw.phase = "init"
  /\ \E fwd \in BOOLEAN :
       \/ /\ fwd
          /\ \E s \in [1..Len(Nonzeros(inputv, 0)) -> bvec_t] :
               spw' = [spw EXCEPT !.phase = "seeded",
                                  !.input = [i \in 1..Len(inputv) |->
                                               [j \in 1..Len(inputv[i]) |->
                                                  s[CHOOSE d \in DOMAIN s :
                                                      Nonzeros(inputv, 0)[d] = <<i - 1, j - 1>>]]]]
       \/ /\ ~fwd
          /\ \E s \in [1..Len(Nonzeros(outputv, 0)) -> bvec_t] :
               spw' = [spw EXCEPT !.phase = "seeded",
                                  !.output = [i \in 1..Len(outputv) |->
                                                [j \in 1..Len(outputv[i]) |->
                                                   s[CHOOSE d \in DOMAIN s :
                                                       Nonzeros(outputv, 0)[d] = <<i - 1, j - 1>>]]]]
  /\ UNCHANGED <<clones, expanded, adj, second>>
  /\ UNCHANGED <<fnvars, work, advars>>

\* A call of spEvaluate.
SpEvaluate ==
  /\ spw.phase = "seeded"
  /\ \E fwd \in BOOLEAN :
       \E r \in {spEvaluate(fwd, algorithm,
                             [iwork |-> spw.iwork, input |-> spw.input, output |-> spw.output])} :
         spw' = [spw EXCEPT !.phase = "done", !.pass = fwd,
                            !.seed = [input |-> spw.input, output |-> spw.output],
                            !.iwork = r.iwork, !.input = r.input, !.output = r.output]
  /\ UNCHANGED <<clones, expanded, adj, second>>
  /\ UNCHANGED <<fnvars, work, advars>>

InitSp == Init /\ layer = "SX" /\ Len(outputv) <= MaxEvalOutputs

NextSp ==
  \/ ~is_init /\ DoInit
  \/ SpInit
  \/ SpSeed
  \/ SpEvaluate

SpecSp == InitSp /\ [][NextSp]_vars

(***************************************************************************)
(* clone() and the evaluation of clones side by side.  An object is known  *)
(* by the place of its members in heap: the work vector, with the markers  *)
(* of the matrix layer in it, and the input and output buffers.  The tape  *)
(* and the lists of the function are copied too and never written after    *)
(* init(), so that every object reads those of the function.  The turns of *)
(* the loops of the evaluations in progress are taken in any order.        *)
(***************************************************************************)
\* The clones made of one function.
MaxClones == 2

\* A faulty variant of clone(): the new object is the object itself.
cloneSame(heap, src) == [heap |-> heap, id |-> src]

\* clone(): "return new MXFunctionInternal(*this)", and the same in the
\* scalar layer; the copy constructor copies every member.
clone(heap, src) == [heap |-> Append(heap, heap[src]), id |-> Len(heap) + 1]

\* The objects when a clone is made: the function is the first of them.
Objects ==
  IF clones.heap = <<>> THEN <<[work |-> work, input |-> input, output |-> output]>>
  ELSE clones.heap

\* clone() on the function (src = 1) or on a clone that is not being
\* evaluated.
Clone ==
  /\ is_init
  /\ Len(clones.inst) < MaxClones
  /\ \E src \in {1} \cup {clones.inst[c].buf : c \in {d \in 1..Len(clones.inst) :
                                                       clones.inst[d].pc = -1}} :
       \E r \in {clone(Objects, src)} :
         clones' = [heap |-> r.heap,
                    inst |-> Append(clones.inst,
                                    [buf |-> r.id, pc |-> -1, err |-> "none",
                                     given |-> r.heap[r.id].input, mixed |-> FALSE])]
  /\ UNCHANGED <<spw, expanded, adj, second>>
  /\ UNCHANGED <<fnvars, work, advars>>

\* setInput(v, i) on a clone that is not being evaluated.
CloneSetInput ==
  /\ \E c \in 1..Len(clones.inst), i \in 1..Len(inputv), v \in InputValues :
       /\ clones.inst[c].pc = -1
       /\ clones' = [clones EXCEPT !.heap[clones.inst[c].buf].input[i] =
                                     IF layer = "MX" THEN <<v>>
                                     ELSE [j \in 1..Len(inputv[i]) |-> <<v>>]]
  /\ UNCHANGED <<spw, expanded, adj, second>>
  /\ UNCHANGED <<fnvars, work, advars>>

\* evaluate() on a clone begins: "Make sure that there are no free
\* variables".  given keeps the inputs the evaluation begins with.
CloneEvaluate ==
  /\ \E c \in 1..Len(clones.inst) :
       /\ clones.inst[c].pc = -1
       /\ clones.inst[c].err = "none"
       /\ clones' = [clones EXCEPT !.inst[c] =
                       IF free_vars # <<>> THEN [@ EXCEPT !.err = "FREE_VARIABLE"]
                       ELSE [@ EXCEPT !.pc = 0,
                                      !.given = clones.heap[clones.inst[c].buf].input]]
  /\ UNCHANGED <<spw, expanded, adj, second>>
  /\ UNCHANGED <<fnvars, work, advars>>

\* One turn of the loop of evaluate() on a clone; mixed keeps that a turn
\* was taken while the evaluation of another clone was in its loop.
CloneStep ==
  /\ \E c \in 1..Len(clones.inst) :
       /\ clones.inst[c].pc \in 0..(Len(algorithm) - 1)
       /\ clones' = [clones EXCEPT
                       !.heap[clones.inst[c].buf] =
                          IF layer = "MX" THEN MXEvalStep(@, algorithm[clones.inst[c].pc + 1])
                          ELSE SXEvalStep(@, algorithm[clones.inst[c].pc + 1]),
                       !.inst[c].pc = @ + 1,
                       !.inst[c].mixed =
                          @ \/ \E d \in 1..Len(clones.inst) :
                                 d # c /\ clones.inst[d].pc \in 1..(Len(algorithm) - 1)]
  /\ UNCHANGED <<spw, expanded, adj, second>>
  /\ UNCHANGED <<fnvars, work, advars>>

InitClone == Init /\ Len(outputv) <= MaxEvalOutputs

NextClone ==
  \/ ~is_init /\ DoInit
  \/ Clone
  \/ CloneSetInput
  \/ CloneEvaluate
  \/ CloneStep

SpecClone == InitClone /\ [][NextClone]_vars

(***************************************************************************)
(* MXFunctionInternal::expand and evalSXsparse.  A scalar expression made  *)
(* during the expansion is known by the node of the arena that has its     *)
(* operator and its arguments: the symbol made for an input is the scalar  *)
(* symbol of that name.  0 stands for every element that is no such node:  *)
(* the zeros of SX(sparsity) and what is computed from them, and what the  *)
(* kernel of a node that is not elementwise makes.  A matrix of sparsity   *)
(* spA has one nonzero.                                                    *)
(***************************************************************************)
\* The scalar node with the operator op, the arguments deps and the value d.
SXNodeOf(op, deps, d) ==
  LET S == {m \in Nodes : /\ Arena[m].op = op /\ Arena[m].dep = deps /\ Arena[m].d = d
                          /\ Arena[m].sp = <<"spA">>}
  IN IF S = {} THEN 0 ELSE CHOOSE m \in S : TRUE

\* MXNode::evaluateSX: result c of node n for the given argument matrices.
\* The kernel of an elementwise operation applies the operation to the
\* elements of its arguments, that of a constant gives its value.
evaluateSX(n, c, args) ==
  IF Arena[n].op \in {"OP_CONST", "OP_ADD", "OP_MUL", "OP_SIN"} /\ Arena[n].sp = <<"spA">>
     /\ \A i \in 1..Len(args) : Len(args[i]) = 1 /\ args[i][1] > 0
  THEN <<SXNodeOf(Arena[n].op, [i \in 1..Len(args) |-> args[i][1]], Arena[n].d)>>
  ELSE <<0>>

\* The kernel call of one element: the non-null results are written.
RECURSIVE MXWriteSX(_, _, _, _)
MXWriteSX(swork0, el, c, args) ==
  IF c >= Len(el.res) THEN swork0
  ELSE MXWriteSX(IF el.res[c + 1] >= 0
                 THEN [swork0 EXCEPT ![el.res[c + 1] + 1] = evaluateSX(el.data, c, args)]
                 ELSE swork0,
                 el, c + 1, args)

\* "Evaluate all of the nodes of the algorithm": one turn of the loop.
MXevalSXEl(st, el) ==
  CASE el.op = "OP_INPUT" ->
         [st EXCEPT !.swork[el.res[1] + 1] = st.input_s[el.arg[1] + 1]]
    [] el.op = "OP_OUTPUT" ->
         [st EXCEPT !.output_s[el.res[1] + 1] = st.swork[el.arg[1] + 1]]
    [] el.op = "OP_PARAMETER" -> st
    [] OTHER ->
         [st EXCEPT !.swork = MXWriteSX(@, el, 0,
                                [i \in 1..Len(el.arg) |->
                                   IF el.arg[i] >= 0 THEN st.swork[el.arg[i] + 1] ELSE <<>>])]

RECURSIVE MXevalSXLoop(_, _, _)
MXevalSXLoop(st, alg, k) ==
  IF k >= Len(alg) THEN st ELSE MXevalSXLoop(MXevalSXEl(st, alg[k + 1]), alg, k + 1)

\* "Create a work array": SX(sparsity) in every slot that is the result of
\* an element other than an output, the empty SX() elsewhere.
MXsworkSX(alg, nwork) ==
  [s \in 1..nwork |->
     IF \E k \in 1..Len(alg) : alg[k].op # "OP_OUTPUT" /\ (s - 1) \in Range(alg[k].res)
     THEN <<0>> ELSE <<>>]

\* MXFunctionInternal::evalSXsparse without seeds.
MXevalSXsparse(alg, nwork, input_s, output_s) ==
  MXevalSXLoop([swork |-> MXsworkSX(alg, nwork), input_s |-> input_s, output_s |-> output_s],
               alg, 0).output_s

\* expand() without symbolic inputs: a symbol for every input, a zero of the
\* sparsity of every output, the symbolic evaluation, then the constructor
\* of the scalar-layer function on the arguments and the results.
expand(ins, outs, alg, nwork) ==
  LET Made(arg, r) ==
        [err |-> SXFunctionInternal(arg, r, [n \in Nodes |-> 0]).err, inputv |-> arg,
         outputv |-> r]
      Evaluated(arg) ==
        Made(arg, MXevalSXsparse(alg, nwork, arg, [i \in 1..Len(outs) |-> <<0>>]))
  IN Evaluated([i \in 1..Len(ins) |-> <<ins[i]>>])

\* expand() on the function.
Expand ==
  /\ is_init
  /\ layer = "MX"
  /\ ~expanded.made
  /\ expanded.err = "none"
  /\ \E r \in {expand(inputv, outputv, algorithm, Len(work))} :
       expanded' = [NoFunction EXCEPT !.made = (r.err = "none"), !.err = r.err,
                                      !.inputv = r.inputv, !.outputv = r.outputv]
  /\ UNCHANGED <<spw, clones, adj, second>>
  /\ UNCHANGED <<fnvars, work, advars>>

\* The expanded function is made of nodes of the arena.
InArena(f) == \A n \in Range(Flatten(f.outputv)) : n > 0

\* init() on the expanded function, with live variables or without.
ExpandedInit ==
  /\ expanded.made
  /\ ~expanded.is_init
  /\ InArena(expanded)
  /\ \E live \in BOOLEAN :
       \E r \in {SXInit(expanded.inputv, expanded.outputv, live, [n \in Nodes |-> 0], <<>>,
                         <<>>)} :
         expanded' = [expanded EXCEPT !.is_init = TRUE, !.algorithm = r.algorithm,
                                      !.work = r.work, !.free_vars = r.free_vars,
                                      !.output = SXBuffers(expanded.outputv)]
  /\ UNCHANGED <<spw, clones, adj, second>>
  /\ UNCHANGED <<fnvars, work, advars>>

\* The expanded function is given the inputs the function has now and is
\* evaluated.
ExpandedEvaluate ==
  /\ expanded.is_init
  /\ \E r \in {EvaluateBody("SX", expanded.algorithm, expanded.free_vars, expanded.work,
                              [i \in 1..Len(input) |-> <<input[i]>>], expanded.output)} :
       expanded' = [expanded EXCEPT !.work = r.work, !.output = r.output, !.err = r.err,
                                    !.given = input, !.evaluated = TRUE]
  /\ UNCHANGED <<spw, clones, adj, second>>
  /\ UNCHANGED <<fnvars, work, advars>>

InitExpand == Init /\ layer = "MX" /\ Len(outputv) <= MaxEvalOutputs

NextExpand ==
  \/ ~is_init /\ DoInit
  \/ SetInput
  \/ Evaluate
  \/ Expand
  \/ ExpandedInit
  \/ ExpandedEvaluate

SpecExpand == InitExpand /\ [][NextExpand]_vars

(***************************************************************************)
(* Views of the compiled function used by the properties below.            *)
(***************************************************************************)
\* The nodes an expression depends on, itself included.
RECURSIVE Closure(_)
Closure(S) ==
  LET T == S \cup UNION {Range(Arena[n].dep) : n \in S}
  IN IF T = S THEN S ELSE Closure(T)

\* The output expressions and the declared inputs as sets of nodes.
OutputRoots == IF layer = "MX" THEN Range(outputv) ELSE Range(Flatten(outputv))

DeclaredInputs == IF layer = "MX" THEN Range(inputv) ELSE Range(Flatten(inputv))

Records == 1..Len(algorithm)

\* The work slots a tape element reads and the work slots it writes.
ArgSlots(lay, el) ==
  IF lay = "MX"
  THEN IF el.op = "OP_INPUT" THEN {}
       ELSE {el.arg[i] : i \in 1..Len(el.arg)} \ {-1}
  ELSE IF el.op = "OP_OUTPUT" THEN {el.i1}
       ELSE IF ndeps(el.op) = 0 THEN {}
       ELSE {el.i1, el.i2}

ResSlots(lay, el) ==
  IF el.op = "OP_OUTPUT" THEN {}
  ELSE IF lay = "MX" THEN {el.res[i] : i \in 1..Len(el.res)} \ {-1}
  ELSE {el.i0}

\* init() under other options or outputs, from the state the function is in.
InitWith(outs, live) == InitFunction(layer, inputv, outs, live, temp, work, free_vars)

\* C2: after init(), free_vars_ holds exactly the parameters that are
\* reachable from an output and are not declared inputs, each once; and the
\* PARAMETER elements left on the tape are exactly the entries of the list.
C2_FreeVarsExact ==
  is_init =>
    /\ Range(free_vars) =
         {n \in Closure(OutputRoots) : Arena[n].op = "OP_PARAMETER"} \ DeclaredInputs
    /\ IsInjective(free_vars)
    /\ Cardinality({k \in Records : algorithm[k].op = "OP_PARAMETER"}) = Len(free_vars)
    /\ layer = "MX" =>
         {algorithm[k].data : k \in {j \in Records : algorithm[j].op = "OP_PARAMETER"}}
           = Range(free_vars)

C2_Witness ==
  /\ is_init
  /\ free_vars # <<>>
  /\ \E n \in DeclaredInputs : n \in Closure(OutputRoots)

\* C4: every argument slot of a tape element that is not an input element is
\* the result slot of an element earlier on the tape.
C4_ArgsWrittenBefore ==
  is_init =>
    \A k \in Records :
      \A s \in ArgSlots(layer, algorithm[k]) :
        \E j \in 1..(k - 1) : s \in ResSlots(layer, algorithm[j])

C4_Witness ==
  /\ is_init
  /\ live_variables
  /\ \E k \in Records :
       /\ algorithm[k].op # "OP_OUTPUT"
       /\ Cardinality(ArgSlots(layer, algorithm[k])) = 2

\* C5: in the matrix layer every element that writes a work slot declares,
\* for that result, the sparsity the slot was allocated with; so a slot is
\* only ever reused for a result of the same sparsity.
C5_ReuseSameSparsity ==
  (is_init /\ layer = "MX") =>
    \A k \in Records :
      algorithm[k].op # "OP_OUTPUT" =>
        \A c \in 1..Len(algorithm[k].res) :
          algorithm[k].res[c] >= 0 =>
            work[algorithm[k].res[c] + 1].sp = Arena[algorithm[k].data].sp[c]

C5_Witness ==
  /\ is_init
  /\ layer = "MX"
  /\ live_variables
  /\ \E j, k \in Records :
       /\ j < k
       /\ ResSlots("MX", algorithm[j]) \cap ResSlots("MX", algorithm[k]) # {}
  /\ {work[i].sp : i \in 1..Len(work)} = Sparsities

\* C6: the work vector with live_variables on is never longer than with
\* live_variables off, for the same inputs and outputs.
C6_LiveNeverLonger ==
  is_init =>
    IF live_variables
    THEN Len(work) <= InitWith(outputv, FALSE).worksize
    ELSE InitWith(outputv, TRUE).worksize <= Len(work)

C6_Witness ==
  /\ is_init
  /\ live_variables
  /\ Len(work) < InitWith(outputv, FALSE).worksize

\* The slots that hold a value some later tape element still reads, once the
\* first k elements have run.
LiveAfter(k) ==
  {s \in 0..(Len(work) - 1) :
     /\ \E j \in 1..k : s \in ResSlots(layer, algorithm[j])
     /\ \E r \in (k + 1)..Len(algorithm) :
          /\ s \in ArgSlots(layer, algorithm[r])
          /\ \A m \in (k + 1)..(r - 1) : s \notin ResSlots(layer, algorithm[m])}

Max(S) == CHOOSE x \in S : \A y \in S : y <= x

\* The largest number of slots live between two tape elements, and the
\* largest number of slots live just before or just after one tape element.
MaxLive == Max({Cardinality(LiveAfter(k)) : k \in 0..Len(algorithm)})

MaxLiveAcross ==
  Max({0} \cup {Cardinality(LiveAfter(k - 1) \cup LiveAfter(k)) : k \in Records})

\* C7 as stated: with live_variables on, the length of the work vector
\* equals the maximum number of simultaneously live slots (under either way
\* of counting the slots live at a tape position).
C7_WorkIsMaxLive ==
  (is_init /\ live_variables) => (Len(work) = MaxLive \/ Len(work) = MaxLiveAcross)

\* C7, amended: with live_variables on, the work vector is at least as long
\* as the maximum number of simultaneously live slots and every one of its
\* slots is written by some tape element; in the scalar layer the two are
\* equal when every declared input is used by an output.
C7_WorkBoundsMaxLive ==
  (is_init /\ live_variables) =>
    /\ MaxLive <= Len(work)
    /\ MaxLiveAcross <= Len(work)
    /\ \A s \in 0..(Len(work) - 1) : \E k \in Records : s \in ResSlots(layer, algorithm[k])
    /\ (layer = "SX" /\ DeclaredInputs \subseteq Closure(OutputRoots)) =>
         Len(work) = MaxLive

C7_Witness ==
  /\ is_init
  /\ live_variables
  /\ MaxLiveAcross < Len(work)
  /\ MaxLive > 1

\* The sorted list of nodes init() works on (0 is the sentinel of an output).
SortedNodes == InitWith(outputv, live_variables).nodes

\* What owns a work slot: a node of the list that is not the operator of a
\* multiple-output call; the wrappers of one output of one call share theirs.
SlotOwner(n) ==
  IF Arena[n].op = "OUTPUT_NODE" THEN <<Arena[n].dep[1], Arena[n].oind>> ELSE <<n, -1>>

SlotOwners == {SlotOwner(n) : n \in {m \in Range(SortedNodes) \ {0} : ~Arena[m].multi}}

\* No work slot is the result slot of two tape elements, nor twice of one.
NoSlotTwice ==
  /\ \A j, k \in Records :
       j # k => ResSlots(layer, algorithm[j]) \cap ResSlots(layer, algorithm[k]) = {}
  /\ layer = "MX" =>
       \A k \in Records :
         algorithm[k].op # "OP_OUTPUT" =>
           \A c, e \in 1..Len(algorithm[k].res) :
             (c # e /\ algorithm[k].res[c] >= 0) => algorithm[k].res[c] # algorithm[k].res[e]

\* C8 as stated: with live_variables off no slot is assigned to more than
\* one result and the length of the work vector is the node count of the
\* sorted list (with or without its sentinels).
C8_WorkIsNodeCount ==
  (is_init /\ ~live_variables) =>
    /\ NoSlotTwice
    /\ \/ Len(work) = Len(SortedNodes)
       \/ Len(work) = Cardinality(Range(SortedNodes) \ {0})

\* C8, amended: with live_variables off no slot is assigned to more than
\* one result, and the length of the work vector is the number of nodes of
\* the sorted list that own a slot: the sentinels and the operators of
\* multiple-output calls own none, and wrappers of the same output share one.
C8_WorkIsOwnerCount ==
  (is_init /\ ~live_variables) =>
    /\ NoSlotTwice
    /\ Len(work) = Cardinality(SlotOwners)

C8_Witness ==
  /\ is_init
  /\ ~live_variables
  /\ \E n \in Range(SortedNodes) \ {0} : Arena[n].multi
  /\ Len(work) < Cardinality(Range(SortedNodes) \ {0})

\* The orders the outputs can be given in.
Perms(q) ==
  {[i \in 1..Len(q) |-> q[f[i]]] :
     f \in {g \in [1..Len(q) -> 1..Len(q)] : \A i, j \in 1..Len(q) : g[i] = g[j] => i = j}}

\* C9: the set of free variables is the same whatever order the outputs
\* are given in.
C9_FreeVarsAnyOrder ==
  is_init =>
    \A q \in Perms(outputv) :
      Range(InitWith(q, live_variables).free_vars) = Range(free_vars)

C9_Witness ==
  /\ is_init
  /\ \E q \in Perms(outputv) : InitWith(q, live_variables).free_vars # free_vars

\* The fields of the tape elements that init() assigns.
TapeView(lay, alg) ==
  [k \in 1..Len(alg) |->
     IF lay = "MX" THEN alg[k]
     ELSE CASE alg[k].op = "OP_CONST" -> <<alg[k].op, alg[k].i0, alg[k].d>>
            [] alg[k].op = "OP_PARAMETER" -> <<alg[k].op, alg[k].i0>>
            [] OTHER -> <<alg[k].op, alg[k].i0, alg[k].i1, alg[k].i2>>]

\* C10: init() on an initialised function leaves the tape, the length of
\* the work vector and the list of free variables as they were.
C10_ReinitSame ==
  [][(is_init /\ DoInit) =>
       /\ TapeView(layer, algorithm') = TapeView(layer, algorithm)
       /\ Len(work') = Len(work)
       /\ free_vars' = free_vars]_vars

C10_Witness ==
  /\ reinit
  /\ free_vars # <<>>
  /\ Len(algorithm) > 3

\* C1: evaluate() of a function with free variables fails before any tape
\* element is run, and leaves the work vector and the output buffers as
\* they were.
C1_FreeVarsAbort ==
  [][(Evaluate /\ free_vars # <<>>) =>
       /\ err' = "FREE_VARIABLE"
       /\ executed' = 0
       /\ work' = work
       /\ output' = output]_vars

C1_Witness ==
  /\ is_init
  /\ err = "FREE_VARIABLE"
  /\ free_vars # <<>>
  /\ \E k \in Records : algorithm[k].op = "OP_INPUT"
  /\ \E i \in 1..Len(input) : input[i] # (IF layer = "MX" THEN <<0>>
                                           ELSE [j \in 1..Len(inputv[i]) |-> <<0>>])

\* C3: in the reverse sweep of evalMX the kernel of every operation is given
\* as arguments the values the argument slots held when the operation ran in
\* the forward sweep, and as results the values the operation wrote.
C3_ReverseSeesForwardValues ==
  (adphase = "rev" /\ rev_seen.k >= 0) =>
    /\ rev_seen.arg = fwd_seen[rev_seen.k + 1].arg
    /\ rev_seen.res = fwd_seen[rev_seen.k + 1].res

\* The same for the calls on a function none of whose earlier calls was ended
\* by an error in its reverse sweep.
ReverseSeesForwardValuesUnpoisoned == poisoned \/ C3_ReverseSeesForwardValues


(***************************************************************************)
(* Construction.                                                           *)
(***************************************************************************)
\* The elements of the input list the duplicate check goes over.
InputElems(lay, ins) == IF lay = "MX" THEN ins ELSE Flatten(ins)

\* The same symbol at two positions of the list.
HasDuplicateSymbol(elems) ==
  \E i, j \in 1..Len(elems) : i # j /\ elems[i] = elems[j] /\ isSymbolic(elems[i])

\* Some input of the list is neither a symbol nor empty.
HasNonSymbolic(ins) == \E i \in 1..Len(ins) : ~isSymbolic(ins[i]) /\ ~isEmpty(ins[i])

\* The temp of every input, of the list handed in and of the list kept, is 0
\* when the constructor exits.
MarkersReset ==
  \A n \in Range(InputElems(layer, inputv)) \cup Range(InputElems(layer, inputv')) :
    temp'[n] = 0

\* C11 as stated: a constructor given the same symbol at two positions of its
\* input list fails with the inputs-not-independent error, and the temp of
\* every input is 0 when it exits, whether it fails or not.
C11_DuplicateAlwaysReported ==
  [][Construct =>
       /\ HasDuplicateSymbol(InputElems(layer, inputv)) =>
            err' = "DUPLICATE_INPUT" /\ ~constructed'
       /\ MarkersReset]_vars

\* C11, amended: a constructor given the same symbol at two positions of its
\* input list fails; the error is the inputs-not-independent one unless, in
\* the matrix layer, some input is a non-empty expression that is no symbol
\* (that check comes first and raises its own error).  The temp of every
\* input is 0 when the constructor exits, whether it fails or not.
C11_DuplicateFails ==
  [][Construct =>
       /\ HasDuplicateSymbol(InputElems(layer, inputv)) =>
            /\ ~constructed'
            /\ err' = IF layer = "MX" /\ HasNonSymbolic(inputv)
                      THEN "NON_SYMBOLIC_INPUT" ELSE "DUPLICATE_INPUT"
       /\ MarkersReset]_vars

\* A constructor has failed on a list with a repeated symbol.
C11_Witness ==
  /\ err = "DUPLICATE_INPUT"
  /\ ~constructed
  /\ HasDuplicateSymbol(InputElems(layer, inputv))
  /\ \A n \in Range(InputElems(layer, inputv)) : temp[n] = 0

\* C12 as stated: the constructor of the matrix layer fails with the
\* non-symbolic-input error whenever some input is not a symbol, and produces
\* no function object.
C12_AnyNonSymbolicFails ==
  [][(Construct /\ layer = "MX" /\ \E i \in 1..Len(inputv) : ~isSymbolic(inputv[i])) =>
       err' = "NON_SYMBOLIC_INPUT" /\ ~constructed']_vars

\* C12, amended: the constructor of the matrix layer fails with the
\* non-symbolic-input error, and produces no function object, whenever some
\* input is a non-empty expression that is no symbol; an empty input that is
\* no symbol is no error: the function is constructed with the symbol r<i> in
\* its place, unless it fails for another reason.
C12_NonSymbolicFails ==
  [][(Construct /\ layer = "MX") =>
       /\ HasNonSymbolic(inputv) => err' = "NON_SYMBOLIC_INPUT" /\ ~constructed'
       /\ ~HasNonSymbolic(inputv) =>
            /\ err' # "NON_SYMBOLIC_INPUT"
            /\ \A i \in 1..Len(inputv) :
                 inputv'[i] = IF isSymbolic(inputv[i]) THEN inputv[i] ELSE sym(i - 1)]_vars

\* The constructor of the matrix layer has failed on an input that is no symbol.
C12_Witness ==
  /\ layer = "MX"
  /\ err = "NON_SYMBOLIC_INPUT"
  /\ ~constructed
  /\ HasNonSymbolic(inputv)


(***************************************************************************)
(* Symbolic evaluation.                                                    *)
(***************************************************************************)
\* An evalSXsparse call that was given both the unit forward seeds and the
\* unit adjoint seeds has returned.
BothSweepsReturned ==
  /\ layer = "SX"
  /\ adphase = "returned"
  /\ ~call.skip_fwd
  /\ ~call.skip_adj

\* C15: in the scalar layer, with and without slot reuse, the adjoint
\* sensitivity for the adjoint seed e_k (the k-th output nonzero) is the k-th
\* part of the Jacobian assembled from the forward sensitivities: for every
\* input nonzero d and every output nonzero k, adjoint direction k gives at
\* input nonzero d what forward direction d gives at output nonzero k.
C15_AdjointIsForwardJacobian ==
  BothSweepsReturned =>
    /\ Len(fsens) = Len(Nonzeros(inputv, 0))
    /\ Len(asens) = Len(Nonzeros(outputv, 0))
    /\ \A d \in 1..Len(fsens), k \in 1..Len(asens) :
         asens[k][Nonzeros(inputv, 0)[d][1] + 1][Nonzeros(inputv, 0)[d][2] + 1]
           = fsens[d][Nonzeros(outputv, 0)[k][1] + 1][Nonzeros(outputv, 0)[k][2] + 1]

\* Both sweeps ran on a tape with a binary and a unary operation, an input
\* read by them and a nonzero derivative.
C15_Witness ==
  /\ BothSweepsReturned
  /\ \E k \in 1..Len(algorithm) : algorithm[k].op = "OP_MUL"
  /\ \E k \in 1..Len(algorithm) : algorithm[k].op = "OP_SIN"
  /\ \E d \in 1..Len(fsens) : \E i \in 1..Len(outputv) : \E j \in 1..Len(outputv[i]) :
       fsens[d][i][j] # 0


\* C13: when every argument of a symbolic evaluation is the declared input,
\* the results the call returns are the stored output expressions, for
\* every output, in both layers (derivative sweeps may have run); and an
\* evalMX call with such arguments and no non-empty seed never is in the
\* forward or the reverse loop over the tape.
C13_GivenOutputsVerbatim ==
  /\ (adphase = "returned" /\ call.output_given /\ layer = "MX") =>
       res = [i \in 1..Len(outputv) |-> <<outputv[i], 0>>]
  /\ (adphase = "returned" /\ call.output_given /\ layer = "SX") =>
       /\ Len(res) = Len(outputv)
       /\ \A i \in 1..Len(outputv) :
            /\ Len(res[i]) = Len(outputv[i])
            /\ \A j \in 1..Len(outputv[i]) : res[i][j].node = outputv[i][j]
  /\ (layer = "MX" /\ call.made /\ call.output_given /\ call.skip_fwd /\ call.skip_adj) =>
       adphase \notin {"fwd", "rev"}

\* An evalMX call with the declared inputs as arguments and a non-empty
\* forward seed has replayed the tape and returned an output that is not an
\* input.
C13_Witness ==
  /\ layer = "MX"
  /\ adphase = "returned"
  /\ call.output_given
  /\ ~call.skip_fwd
  /\ \E i \in 1..Len(outputv) : Arena[outputv[i]].op = "OP_MUL"


\* Every seed of forward direction d of the call is structurally empty.
EmptyDirection(d) == \A j \in 1..Len(call.fseed[d]) : ~call.fseed[d][j]

\* Direction d of the call is skipped: no kernel was given seeds for it in
\* the forward loop, and the sensitivities returned for it are structural
\* zeros of the shape of each output.
DirectionSkipped(d) ==
  /\ adphase = "fwd" => \A k \in 1..Len(fwd_dirs) : d \notin fwd_dirs[k]
  /\ adphase = "returned" =>
       \A i \in 1..Len(outputv) : fsens[d][i] = Zero(Arena[outputv[i]].sp[1])

C20_FreshSpillStatePerCall ==
  (layer = "MX" /\ adphase = "fwd" /\ alg_counter = 0) =>
    /\ tape = allocTape(algorithm)
    /\ tt = 0
    /\ \A s \in 1..Len(work) : work[s].second = 0

\* The same for the calls on a function none of whose earlier calls was ended
\* by an error in its reverse sweep.
FreshSpillStateUnpoisoned == poisoned \/ C20_FreshSpillStatePerCall


(***************************************************************************)
(* The tape after init().                                                  *)
(***************************************************************************)
\* The OUTPUT elements of the tape, in tape order.
OutputRecords == SelectSeq(algorithm, LAMBDA el : el.op = "OP_OUTPUT")

\* The place on the tape (1-based) of the k-th OUTPUT element (1-based).
RECURSIVE OutputPlace(_, _)
OutputPlace(k, p) ==
  IF algorithm[p].op = "OP_OUTPUT"
  THEN IF k = 1 THEN p ELSE OutputPlace(k - 1, p + 1)
  ELSE OutputPlace(k, p + 1)

\* The last element before place p that writes slot s (0 if none).
LastWriter(p, s) ==
  Max({0} \cup {q \in 1..(p - 1) : s \in ResSlots(layer, algorithm[q])})

\* Element q of the matrix-layer tape computes expression n into slot s: it
\* is the element of n, or of the node n is an output of, and s is its
\* result for n.
Computes(q, n, s) ==
  /\ q > 0
  /\ IF Arena[n].op = "OUTPUT_NODE"
     THEN /\ algorithm[q].data = Arena[n].dep[1]
          /\ algorithm[q].res[Arena[n].oind + 1] = s
     ELSE /\ algorithm[q].data = n
          /\ algorithm[q].res = <<s>>

\* C16: the matrix-layer tape has one OUTPUT element for each declared
\* output, in the order of the outputs; its res is the index of the output
\* and its one argument is the slot that holds the expression of the output
\* when the element runs.  The scalar-layer tape has one OUTPUT element for
\* each output nonzero, in the order of (output, nonzero), the outputs
\* without nonzeros being passed over.
C16_OutputRecords ==
  is_init =>
    /\ layer = "MX" =>
         /\ Len(OutputRecords) = Len(outputv)
         /\ \A k \in 1..Len(outputv) :
              /\ OutputRecords[k].res = <<k - 1>>
              /\ Len(OutputRecords[k].arg) = 1
              /\ Computes(LastWriter(OutputPlace(k, 1), OutputRecords[k].arg[1]),
                          outputv[k], OutputRecords[k].arg[1])
    /\ layer = "SX" =>
         [k \in 1..Len(OutputRecords) |-> <<OutputRecords[k].i0, OutputRecords[k].i2>>]
           = Nonzeros(outputv, 0)

\* A matrix-layer tape with slot reuse and two outputs, one of them an
\* output of a call node.
C16_Witness ==
  /\ is_init
  /\ layer = "MX"
  /\ live_variables
  /\ Len(outputv) = 2
  /\ \E i \in 1..Len(outputv) : Arena[outputv[i]].op = "OUTPUT_NODE"
  /\ \E j, k \in Records :
       /\ j < k
       /\ ResSlots("MX", algorithm[j]) \cap ResSlots("MX", algorithm[k]) # {}


\* The function y = (a+b)*(a+b) with the declared inputs a and b.
IsSquareOfSum ==
  /\ is_init
  /\ DeclaredInputs = {1, 2}
  /\ Len(InputElems(layer, inputv)) = 2
  /\ outputv = IF layer = "MX" THEN <<5>> ELSE << <<5>> >>

\* C17 as stated: compiling y = (a+b)*(a+b) with the declared inputs a and b
\* gives a work vector of 2 slots with live variables on and of 3 slots with
\* live variables off.
C17_SquareOfSumWorkSize ==
  IsSquareOfSum => Len(work) = IF live_variables THEN 2 ELSE 3

\* C17, amended: with live variables off the work vector has 4 slots, one
\* for each of a, b, a+b and y; with live variables on it has 2 slots in the
\* scalar layer, which frees the arguments of an operation before it places
\* the result, and 3 slots in the matrix layer, which places the result of an
\* operation that is not in place before it frees the arguments.
C17_SquareOfSumSlots ==
  IsSquareOfSum =>
    Len(work) = IF ~live_variables THEN 4 ELSE IF layer = "SX" THEN 2 ELSE 3

\* The function is compiled in the scalar layer without slot reuse.
C17_Witness ==
  /\ IsSquareOfSum
  /\ layer = "SX"
  /\ ~live_variables
  /\ Len(algorithm) = 5


\* The function with the outputs y1 = u + c1 and y2 = u * c2 for u = sin(x)
\* and two constants c1 and c2.
IsSharedSine ==
  /\ is_init
  /\ InputElems(layer, outputv) = <<7, 21>>

\* The place (1-based) of node n in the sorted list, which for this function
\* is the place of its element on the tape.
PlaceOf(n) == CHOOSE k \in 1..Len(SortedNodes) : SortedNodes[k] = n

\* The reference counts init() has taken when it starts to place the nodes
\* in the work vector, by place in the sorted list.
RefCounts ==
  LET Counted(nl) ==
        IF layer = "MX" THEN MXBuild(nl.nodes, nl.temp, outputv).refcount
        ELSE SXBuild(nl.nodes, nl.temp, outputv).refcount
  IN Counted(NodeList(InputElems(layer, outputv), InputElems(layer, inputv), temp))

\* The slot the tape element at place p writes.
SlotOf(p) == CHOOSE s \in ResSlots(layer, algorithm[p]) : TRUE

\* C18: for u = sin(x), y1 = u + c1, y2 = u * c2 and the outputs [y1, y2],
\* the tape has one element computing u, the reference count of u is 2 when
\* the allocation starts, both elements that read u read the slot u was
\* placed in, and no element between the one of u and either of them writes
\* that slot.
C18_SharedNodeKeptUntilRead ==
  IsSharedSine =>
    /\ Cardinality({k \in 1..Len(SortedNodes) : SortedNodes[k] = 6}) = 1
    /\ Cardinality({k \in Records : algorithm[k].op = "OP_SIN"}) = 1
    /\ algorithm[PlaceOf(6)].op = "OP_SIN"
    /\ RefCounts[PlaceOf(6)] = 2
    /\ \A r \in {PlaceOf(7), PlaceOf(21)} :
         /\ algorithm[r].op \in {"OP_ADD", "OP_MUL"}
         /\ SlotOf(PlaceOf(6)) \in ArgSlots(layer, algorithm[r])
         /\ \A q \in (PlaceOf(6) + 1)..(r - 1) :
              SlotOf(PlaceOf(6)) \notin ResSlots(layer, algorithm[q])

\* The function is compiled with slot reuse, and the slot of u is taken for
\* a new result once both elements have read it.
C18_Witness ==
  /\ IsSharedSine
  /\ live_variables
  /\ \E q \in Records :
       /\ q >= PlaceOf(21)
       /\ SlotOf(PlaceOf(6)) \in ResSlots(layer, algorithm[q])


\* Output c (0-based) of the multiple-output node n is consumed: one of its
\* wrappers is part of an output expression.
Consumed(n, c) ==
  \E w \in Closure(OutputRoots) :
    Arena[w].op = "OUTPUT_NODE" /\ Arena[w].dep[1] = n /\ Arena[w].oind = c

\* The tape elements of node n.
ElementsOf(n) == {k \in Records : algorithm[k].op # "OP_OUTPUT" /\ algorithm[k].data = n}

\* What the tape dump prints for result c (0-based) of the element at place
\* k if the output is consumed, and if it is not.
PrintedResult(k, c) ==
  IF Consumed(algorithm[k].data, c)
  THEN <<"@", ToString(algorithm[k].res[c + 1])>> ELSE <<"NULL">>

\* C19: a multiple-output node of the matrix layer with a consumed output
\* has one tape element; the res of the element holds a slot for each
\* consumed output and -1 for each other output; every element that reads a
\* wrapper of an output of the node, and every OUTPUT element of such a
\* wrapper, reads the slot the res holds for that output; and the tape dump
\* prints the results as a brace list with NULL for the outputs that are not
\* consumed.
C19_MultipleOutputRecord ==
  (is_init /\ layer = "MX") =>
    \A n \in {m \in Nodes : Arena[m].multi /\ \E c \in 0..(Arena[m].nout - 1) : Consumed(m, c)} :
      /\ Cardinality(ElementsOf(n)) = 1
      /\ \A k \in ElementsOf(n) :
           /\ Len(algorithm[k].res) = Arena[n].nout
           /\ \A c \in 0..(Arena[n].nout - 1) :
                IF Consumed(n, c) THEN algorithm[k].res[c + 1] \in 0..(Len(work) - 1)
                ELSE algorithm[k].res[c + 1] = -1
           /\ \A q \in Records :
                IF algorithm[q].op = "OP_OUTPUT"
                THEN LET w == outputv[algorithm[q].res[1] + 1]
                     IN (Arena[w].op = "OUTPUT_NODE" /\ Arena[w].dep[1] = n) =>
                          algorithm[q].arg[1] = algorithm[k].res[Arena[w].oind + 1]
                ELSE \A i \in 1..Len(Arena[algorithm[q].data].dep) :
                       LET w == Arena[algorithm[q].data].dep[i]
                       IN (Arena[w].op = "OUTPUT_NODE" /\ Arena[w].dep[1] = n) =>
                            algorithm[q].arg[i] = algorithm[k].res[Arena[w].oind + 1]
           /\ Arena[n].nout = 2 =>
                printRes(algorithm[k]) =
                  <<"{">> \o PrintedResult(k, 0) \o <<", ">> \o PrintedResult(k, 1)
                    \o <<"} = ">>

\* A function that consumes output 0 of the call through two wrappers and
\* does not consume output 1.
C19_Witness ==
  /\ is_init
  /\ layer = "MX"
  /\ 14 \in OutputRoots
  /\ Consumed(9, 0)
  /\ ~Consumed(9, 1)
  /\ \E k \in ElementsOf(9) : algorithm[k].res[2] = -1


(***************************************************************************)
(* The spill tape.                                                         *)
(***************************************************************************)
\* The entries allocTape makes for the tape of the function: the pairs
\* (tape index, slot), 0-based.
SpillEntries == [t \in 1..Len(allocTape(algorithm)) |-> allocTape(algorithm)[t].first]

\* Places i < j (1-based) on the tape write slot s and place r between them
\* reads it.
ReadBetweenWrites(i, r, j, s) ==
  /\ i < r
  /\ r < j
  /\ s \in ResSlots(layer, algorithm[i])
  /\ s \in ResSlots(layer, algorithm[j])
  /\ s \in ArgSlots(layer, algorithm[r])

\* C21 as stated: when two elements i < j of the matrix-layer tape write slot
\* s and an element between them reads s, the spill tape has an entry
\* (i', s) for an index i' from i to j-1.
C21_SpilledBeforeOverwriter ==
  (is_init /\ layer = "MX") =>
    \A i, r, j \in Records : \A s \in 0..(Len(work) - 1) :
      ReadBetweenWrites(i, r, j, s) =>
        \E t \in 1..Len(SpillEntries) :
          /\ SpillEntries[t][2] = s
          /\ SpillEntries[t][1] + 1 \in i..(j - 1)

\* C21, amended: when two elements i < j of the matrix-layer tape write slot
\* s, the spill tape has the entry (j, s): the value an element between them
\* reads is spilled by the element that overwrites it.
C21_SpilledAtOverwriter ==
  (is_init /\ layer = "MX") =>
    \A i, j \in Records : \A s \in 0..(Len(work) - 1) :
      (i < j /\ s \in ResSlots(layer, algorithm[i]) /\ s \in ResSlots(layer, algorithm[j])) =>
        \E t \in 1..Len(SpillEntries) : SpillEntries[t] = <<j - 1, s>>

\* A slot is written, read by a later element and written again.
C21_Witness ==
  /\ is_init
  /\ layer = "MX"
  /\ \E i, r, j \in Records : \E s \in 0..(Len(work) - 1) : ReadBetweenWrites(i, r, j, s)
  /\ allocTape(algorithm) # <<>>

\* The results of the tape that are written into a slot, as pairs (place,
\* position in res), and those of them whose slot an earlier element wrote.
ResultWrites ==
  {<<k, c>> \in Records \X (1..2) :
     /\ algorithm[k].op # "OP_OUTPUT"
     /\ c <= Len(algorithm[k].res)
     /\ algorithm[k].res[c] >= 0}

Rewrites ==
  {w \in ResultWrites :
     \E j \in 1..(w[1] - 1) : algorithm[w[1]].res[w[2]] \in ResSlots(layer, algorithm[j])}

\* C25: the spill tape has one entry (k, s) for each result slot s of each
\* element k that is not an OUTPUT element and whose slot an earlier element
\* wrote, no other entry, in the order of the tape; so its length is the
\* number of result writes less the number of slots written, and it is empty
\* when live variables are off.
C25_SpillEntriesExact ==
  (is_init /\ layer = "MX") =>
    /\ Range(SpillEntries) = {<<w[1] - 1, algorithm[w[1]].res[w[2]]>> : w \in Rewrites}
    /\ Len(SpillEntries) = Cardinality(Rewrites)
    /\ \A t, u \in 1..Len(SpillEntries) : t < u => SpillEntries[t][1] <= SpillEntries[u][1]
    /\ Len(SpillEntries) =
         Cardinality(ResultWrites)
           - Cardinality(UNION {ResSlots(layer, algorithm[k]) : k \in Records})
    /\ ~live_variables => SpillEntries = <<>>

\* A tape with two spill entries.
C25_Witness ==
  /\ is_init
  /\ layer = "MX"
  /\ Len(SpillEntries) >= 2


\* The entries of the spill tape of the call that belong to the tape
\* elements before place k (0-based).
EntriesBefore(k) == {t \in 1..Len(tape) : tape[t].first[1] < k}

\* C26: in an evalMX call with an adjoint direction the forward loop fills
\* the entries of the spill tape one after the other, each once: when it is
\* at element k, the tape counter is the number of entries of the elements
\* before k, the entries below the counter hold a spilled value and the
\* others none, so the counter is the tape length when the loop ends.  The
\* reverse loop takes them back in descending order: when it is at element
\* k, the counter is the index of the last entry of the elements up to k,
\* so it is -1 when the loop ends; and then the retrieve-from-tape marker of
\* every slot is 0.
C26_SpillTapeFilledAndConsumed ==
  (layer = "MX" /\ call.made /\ ~call.skip_adj) =>
    /\ adphase = "fwd" =>
         /\ tt = Cardinality(EntriesBefore(alg_counter))
         /\ \A t \in 1..Len(tape) : (tape[t].second # <<>>) <=> (t <= tt)
         /\ alg_counter = Len(algorithm) => tt = Len(tape)
    /\ adphase = "rev" =>
         /\ tt + 1 = Cardinality(EntriesBefore(alg_counter + 1))
         /\ \A t \in 1..Len(tape) : tape[t].second # <<>>
         /\ alg_counter < 0 =>
              /\ tt = -1
              /\ \A s \in 1..Len(work) : work[s].second = 0

\* The reverse loop of a call with two spill entries is over.
C26_Witness ==
  /\ layer = "MX"
  /\ call.made
  /\ ~call.skip_adj
  /\ adphase = "rev"
  /\ alg_counter < 0
  /\ Len(tape) >= 2


(***************************************************************************)
(* In-place operations.                                                    *)
(***************************************************************************)
\* The tape elements after place k that read the value of node n: elements
\* of a node that depends on n, or on another wrapper of the same output,
\* and OUTPUT elements of such an output expression.
LaterReaders(k, n) ==
  {q \in (k + 1)..Len(algorithm) :
     IF algorithm[q].op = "OP_OUTPUT"
     THEN SlotOwner(outputv[algorithm[q].res[1] + 1]) = SlotOwner(n)
     ELSE \E i \in 1..Len(Arena[algorithm[q].data].dep) :
            SlotOwner(Arena[algorithm[q].data].dep[i]) = SlotOwner(n)}

\* Result c of the element at place k is in the slot of its argument p
\* (all 1-based).
ResultOverArgument(k, c, p) ==
  /\ algorithm[k].op \notin {"OP_OUTPUT", "OP_INPUT"}
  /\ c \in 1..Len(algorithm[k].res)
  /\ p \in 1..Len(algorithm[k].arg)
  /\ algorithm[k].res[c] >= 0
  /\ algorithm[k].res[c] = algorithm[k].arg[p]

\* C27: after init() of the matrix layer, a result of a tape element is in
\* the slot of one of its arguments only if the argument is one of the
\* leading arguments the operation declares in place, no later element reads
\* the value of the argument, and the result and the argument have the same
\* sparsity; so an element of an operation without in-place arguments never
\* has a result in the slot of an argument.
C27_ResultOverInplaceArgumentOnly ==
  (is_init /\ layer = "MX") =>
    \A k \in Records : \A c, p \in 1..2 :
      ResultOverArgument(k, c, p) =>
        /\ p <= Arena[algorithm[k].data].inplace
        /\ LaterReaders(k, Arena[algorithm[k].data].dep[p]) = {}
        /\ Arena[Arena[algorithm[k].data].dep[p]].sp[1] = Arena[algorithm[k].data].sp[c]

\* The result of the setnonzeros element is in the slot of its first
\* argument, and the tape has an element that reads two slots and writes a
\* third.
C27_Witness ==
  /\ is_init
  /\ layer = "MX"
  /\ \E k \in Records : ResultOverArgument(k, 1, 1) /\ Arena[algorithm[k].data].inplace = 1
  /\ \E k \in Records :
       /\ algorithm[k].op = "OP_ADD"
       /\ Cardinality(ArgSlots("MX", algorithm[k]) \cup ResSlots("MX", algorithm[k])) = 3


(***************************************************************************)
(* Replaying a tape with slot reuse.                                       *)
(***************************************************************************)
\* The nodes the element at place k reads, with the slots it reads them
\* from.
ArgumentsOf(k) ==
  IF layer = "MX"
  THEN IF algorithm[k].op = "OP_OUTPUT"
       THEN {<<outputv[algorithm[k].res[1] + 1], algorithm[k].arg[1]>>}
       ELSE IF algorithm[k].op = "OP_INPUT" THEN {}
       ELSE {<<Arena[algorithm[k].data].dep[i], algorithm[k].arg[i]>> :
               i \in 1..Len(algorithm[k].arg)}
  ELSE IF algorithm[k].op = "OP_OUTPUT"
       THEN {<<outputv[algorithm[k].i0 + 1][algorithm[k].i2 + 1], algorithm[k].i1>>}
       ELSE IF ndeps(algorithm[k].op) = 0 THEN {}
       ELSE {<<SXDep(SortedNodes[k], 0), algorithm[k].i1>>,
             <<SXDep(SortedNodes[k], 1), algorithm[k].i2>>}

\* The slot s holds the value of node n when the element at place k runs:
\* the last element before k that writes s is the one that computes n.  In
\* the scalar layer the tape has one element for each entry of the sorted
\* list, in the order of the list.
HoldsValueOf(k, s, n) ==
  /\ LastWriter(k, s) > 0
  /\ IF layer = "MX" THEN Computes(LastWriter(k, s), n, s)
     ELSE SortedNodes[LastWriter(k, s)] = n /\ algorithm[LastWriter(k, s)].i0 = s

\* What evaluate() gives for the inputs of the state on the tape init()
\* makes with live variables on or off.
OutputsWith(live) ==
  EvaluateBody(layer, InitWith(outputv, live).algorithm, <<>>, InitWith(outputv, live).work,
               input, output).output

\* C24: on the tape of either layer every argument slot of every element
\* holds, when the element runs, the value of the node the argument stands
\* for; and for a function without free variables evaluate() gives the
\* outputs it gives on the tape compiled without slot reuse.
C24_ReuseKeepsValues ==
  is_init =>
    /\ \A k \in Records : \A a \in ArgumentsOf(k) : HoldsValueOf(k, a[2], a[1])
    /\ free_vars = <<>> =>
         /\ OutputsWith(TRUE) = OutputsWith(FALSE)
         /\ EvaluateBody(layer, algorithm, free_vars, work, input, output).output
              = OutputsWith(FALSE)

\* evaluate() has run a tape with slot reuse whose work vector is shorter
\* than the one without.
C24_Witness ==
  /\ is_init
  /\ live_variables
  /\ free_vars = <<>>
  /\ executed = Len(algorithm)
  /\ executed > 0
  /\ Len(work) < InitWith(outputv, FALSE).worksize
  /\ output = OutputsWith(FALSE)


(***************************************************************************)
(* The sparsity pass of the scalar layer.                                  *)
(***************************************************************************)
\* The nonzeros of the inputs and of the outputs, as pairs (matrix, nonzero).
InputNonzeros == Range(Nonzeros(inputv, 0))

OutputNonzeros == Range(Nonzeros(outputv, 0))

\* The output nonzero q depends on the input nonzero p in the expression
\* graph.
DependsOn(q, p) == inputv[p[1] + 1][p[2] + 1] \in Closure({outputv[q[1] + 1][q[2] + 1]})

\* The word of the nonzero p in the buffers b.
WordAt(b, p) == b[p[1] + 1][p[2] + 1]

ForwardPassDone == layer = "SX" /\ spw.phase = "done" /\ spw.pass

\* C28: after a forward pass the word of each output nonzero is the union
\* of the words the input buffers held for the input nonzeros it depends on,
\* and so empty when it depends on none, whatever the work vector held
\* before the pass and whether slots are reused or not.
C28_ForwardMaskIsOrOfReachableInputs ==
  ForwardPassDone =>
    \A q \in OutputNonzeros :
      WordAt(spw.output, q) =
        UNION {WordAt(spw.seed.input, p) : p \in {r \in InputNonzeros : DependsOn(q, r)}}

\* A forward pass on a work vector and an output buffer that held bits, with
\* slots reused, for an output that joins the different words of two inputs.
C28_Witness ==
  /\ ForwardPassDone
  /\ live_variables
  /\ \E s \in 1..Len(work) : Cardinality({k \in Records : (s - 1) \in ResSlots(layer, algorithm[k])}) > 1
  /\ \E q \in OutputNonzeros :
       /\ WordAt(spw.seed.output, q) = {1}
       /\ WordAt(spw.output, q) = {0, 1}
       /\ \E p1, p2 \in InputNonzeros :
            /\ DependsOn(q, p1) /\ DependsOn(q, p2)
            /\ WordAt(spw.seed.input, p1) = {0}
            /\ WordAt(spw.seed.input, p2) = {1}


\* A backward pass that followed spInit(false).
ReversePassDone == layer = "SX" /\ spw.phase = "done" /\ ~spw.pass /\ ~spw.fwd

\* The union of the seed words of the output nonzeros that depend on p.
SeedsAbove(p) ==
  UNION {WordAt(spw.seed.output, q) : q \in {r \in OutputNonzeros : DependsOn(r, p)}}

NoWorkBits == \A s \in 1..Len(spw.iwork) : spw.iwork[s] = {}

\* C29: after spInit(false) and a backward pass the word of every input
\* nonzero is the union of the seed words of the output nonzeros that
\* depend on it (empty when none does, whatever the buffer held), and every
\* word of the work vector is empty, also when the result slot of an
\* operation is the slot of one of its arguments.
C29_ReverseMaskIsOrOfDependentSeeds ==
  ReversePassDone =>
    /\ Len(spw.iwork) = Len(work)
    /\ \A p \in InputNonzeros : WordAt(spw.input, p) = SeedsAbove(p)
    /\ NoWorkBits

\* A backward pass over an operation whose result slot is the slot of its
\* argument, with two seeded outputs above one input and an input that no
\* output depends on, whose buffer held bits.
C29_Witness ==
  /\ ReversePassDone
  /\ \E k \in Records :
       /\ ndeps(algorithm[k].op) > 0
       /\ algorithm[k].i0 \in {algorithm[k].i1, algorithm[k].i2}
  /\ \E p \in InputNonzeros :
       /\ \E q1, q2 \in OutputNonzeros :
            /\ DependsOn(q1, p) /\ DependsOn(q2, p)
            /\ WordAt(spw.seed.output, q1) = {0}
            /\ WordAt(spw.seed.output, q2) = {1}
       /\ WordAt(spw.input, p) = {0, 1}
  /\ \E p \in InputNonzeros :
       /\ \A q \in OutputNonzeros : ~DependsOn(q, p)
       /\ WordAt(spw.seed.input, p) # {}
       /\ WordAt(spw.input, p) = {}


(***************************************************************************)
(* Clones evaluated side by side.                                          *)
(***************************************************************************)
\* The evaluation of clone c has run the whole tape.
CloneDone(c) ==
  clones.inst[c].pc >= 0 /\ clones.inst[c].pc = Len(algorithm)

RECURSIVE ValueAt(_, _)
ValueAt(t, p) ==
  IF t[p] < 200 THEN [val |-> <<t[p]>>, next |-> p + 1]
  ELSE LET n == t[p] - 200
           Unary(a) == [val |-> MathFun(Arena[n].op, a.val, <<>>), next |-> a.next]
           Binary(a, b) == [val |-> MathFun(Arena[n].op, a.val, b.val), next |-> b.next]
           Second(a) == Binary(a, ValueAt(t, a.next))
       IN CASE Len(Arena[n].dep) = 0 -> [val |-> <<Arena[n].d>>, next |-> p + 2]
            [] Len(Arena[n].dep) = 1 -> Unary(ValueAt(t, p + 2))
            [] OTHER -> Second(ValueAt(t, p + 2))

ScalarValue(t) == ValueAt(t, 1).val

\* Every element of the tape is an input, an output, a constant or an
\* elementwise operation.
Elementwise ==
  \A k \in Records :
    algorithm[k].op \in {"OP_INPUT", "OP_OUTPUT", "OP_PARAMETER", "OP_CONST", "OP_ADD",
                         "OP_MUL", "OP_SIN"}

\* expand() was called on a function without free variables.
ExpandCalled ==
  /\ layer = "MX" /\ is_init /\ free_vars = <<>> /\ Elementwise
  /\ (expanded.made \/ expanded.err # "none")

\* The outputs of the function evaluated on the inputs the expanded
\* function was given.
OutputsOfFunction ==
  EvaluateBody("MX", algorithm, free_vars, work, expanded.given, output).output

ExpandedAsFunction ==
  /\ expanded.made
  /\ InArena(expanded)
  /\ Len(expanded.outputv) = Len(outputv)
  /\ expanded.evaluated =>
       /\ expanded.err = "none"
       /\ \A k \in 1..Len(outputv) :
            expanded.output[k] = <<ScalarValue(OutputsOfFunction[k])>>

\* C23: for a matrix-layer function without free variables expand() gives
\* a scalar-layer function whose numeric evaluation yields, on every input,
\* the outputs of the numeric evaluation of the function.
C23_ExpandEvaluatesAsFunction == ExpandCalled => ExpandedAsFunction

\* The same for the functions that have an output.
ExpandWithOutputs == (ExpandCalled /\ outputv # <<>>) => ExpandedAsFunction

\* An expanded function evaluated on an input that was set, for a function
\* with slot reuse that was evaluated on it too, with the same output.
ExpandWitness ==
  /\ ExpandCalled
  /\ live_variables
  /\ expanded.evaluated
  /\ executed = Len(algorithm) /\ err = "none"
  /\ outputv = <<5>>
  /\ \E i \in 1..Len(input) : input[i] = <<1>>
  /\ expanded.given = input
  /\ expanded.output = <<<<ScalarValue(output[1])>>>>


(***************************************************************************)
(* The input elements of the tape.                                         *)
(***************************************************************************)
\* The input elements of the tape for input ind, nonzero nz (matrix layer:
\* nz = 0), that own a work slot.
InputRecords(ind, nz) ==
  IF layer = "MX"
  THEN {k \in Records : /\ algorithm[k].op = "OP_INPUT"
                        /\ algorithm[k].arg = <<ind>>
                        /\ algorithm[k].data = inputv[ind + 1]
                        /\ Len(algorithm[k].res) = 1
                        /\ algorithm[k].res[1] \in 0..(Len(work) - 1)}
  ELSE {k \in Records : /\ algorithm[k].op = "OP_INPUT"
                        /\ algorithm[k].i1 = ind /\ algorithm[k].i2 = nz
                        /\ SortedNodes[k] = inputv[ind + 1][nz + 1]
                        /\ algorithm[k].i0 \in 0..(Len(work) - 1)}

\* The declared inputs as pairs (input, nonzero).
DeclaredPlaces ==
  IF layer = "MX" THEN {<<i - 1, 0>> : i \in 1..Len(inputv)} ELSE InputNonzeros

\* The node of a PARAMETER element of the tape.
ParameterNodes ==
  {IF layer = "MX" THEN algorithm[k].data ELSE SortedNodes[k] :
     k \in {j \in Records : algorithm[j].op = "OP_PARAMETER"}}

\* C32: after init() every declared input (matrix layer) or nonzero of a
\* declared input (scalar layer) has exactly one INPUT element on the tape,
\* with the index of the input and with a work slot, also when no output
\* depends on it; the tape has no other INPUT element, and no PARAMETER
\* element of a declared input.
C32_OneInputRecordEach ==
  is_init =>
    /\ \A p \in DeclaredPlaces : Cardinality(InputRecords(p[1], p[2])) = 1
    /\ Cardinality({k \in Records : algorithm[k].op = "OP_INPUT"}) =
         Cardinality(DeclaredPlaces)
    /\ ParameterNodes \cap DeclaredInputs = {}

\* A function with slot reuse one input of which is used by an output while
\* another is used by none.
C32_Witness ==
  /\ is_init
  /\ live_variables
  /\ \E n \in DeclaredInputs : n \in Closure(OutputRoots)
  /\ \E n \in DeclaredInputs : n \notin Closure(OutputRoots)
  /\ \A p \in DeclaredPlaces : Cardinality(InputRecords(p[1], p[2])) = 1


(***************************************************************************)
(* Two functions over the same nodes.  The temp field belongs to the node, *)
(* so both constructors and both init() calls read and write the same      *)
(* temp; the second function is made after init() of the first returned.   *)
(***************************************************************************)
\* new(inputs, outputs) of the second function, on the nodes as the first
\* function left them.
ConstructSecond ==
  /\ is_init
  /\ ~second.constructed
  /\ second.err = "none"
  /\ \E ins \in IF layer = "MX" THEN MXInputLists ELSE SXInputLists,
        outs \in IF layer = "MX" THEN MXOutputLists ELSE SXOutputLists,
        live \in BOOLEAN :
       /\ Len(outs) <= MaxEvalOutputs
       /\ \E r \in {IF layer = "MX" THEN MXFunctionInternal(ins, outs, temp)
                     ELSE SXFunctionInternal(ins, outs, temp)} :
            /\ second' = [second EXCEPT !.constructed = (r.err = "none"), !.err = r.err,
                                        !.inputv = r.inputv, !.outputv = outs,
                                        !.live = live]
            /\ temp' = r.temp
  /\ UNCHANGED <<fnvars, work, advars, spw, clones, expanded, adj>>

\* init() of the second function.
InitSecond ==
  /\ second.constructed
  /\ ~second.is_init
  /\ \E r \in {InitFunction(layer, second.inputv, second.outputv, second.live, temp,
                              second.work, second.free_vars)} :
       /\ second' = [second EXCEPT !.is_init = TRUE, !.algorithm = r.algorithm,
                                   !.work = r.work, !.free_vars = r.free_vars]
       /\ temp' = r.temp
  /\ UNCHANGED <<fnvars, work, advars, spw, clones, expanded, adj>>

InitTwo == Init /\ Len(outputv) <= MaxEvalOutputs

NextTwo ==
  \/ ~is_init /\ DoInit
  \/ ConstructSecond
  \/ InitSecond

SpecTwo == InitTwo /\ [][NextTwo]_vars

\* The second function compiled alone, on nodes no compilation has touched.
SecondInIsolation ==
  InitFunction(layer, second.inputv, second.outputv, second.live, [n \in Nodes |-> 0],
               <<>>, <<>>)

\* The nodes under the outputs of the second function.
SecondNodes ==
  Closure(IF layer = "MX" THEN Range(second.outputv) ELSE Range(Flatten(second.outputv)))

\* The declared inputs of the second function.
SecondInputs ==
  IF layer = "MX" THEN Range(second.inputv) ELSE Range(Flatten(second.inputv))

\* C33: when init() has returned, the temp of every node is 0; a second
\* function made and compiled after that on the same nodes gets no
\* duplicate-input error and the same tape, work vector and free parameters
\* as when it is compiled alone.
C33_TempZeroAfterInit ==
  /\ (is_init /\ (second.constructed => second.is_init)) =>
        \A n \in Nodes : temp[n] = 0
  /\ second.err = "none"
  /\ second.is_init =>
        /\ second.algorithm = SecondInIsolation.algorithm
        /\ second.work = SecondInIsolation.work
        /\ second.free_vars = SecondInIsolation.free_vars

C33_Witness ==
  /\ is_init
  /\ second.is_init
  /\ free_vars # <<>>
  /\ Range(free_vars) \cap SecondInputs \cap SecondNodes # {}
  /\ (DeclaredInputs \cap SecondNodes) \ SecondInputs # {}
  /\ Closure(OutputRoots) \cap SecondNodes # {}
  /\ second.algorithm # algorithm


(***************************************************************************)
(* Numeric evaluation and what earlier calls left in the work vector.      *)
(***************************************************************************)
\* The work vector with other numbers in it: slot s holds v[s].
WorkHolding(v) ==
  [s \in 1..Len(work) |-> IF layer = "MX" THEN [work[s] EXCEPT !.val = v[s]] ELSE v[s]]

\* Work vectors an evaluation can find: the one init() leaves, one with a
\* different number in every slot, and one with the same small number in
\* every slot, as the words of a sparsity pass are.
OtherWorks ==
  {InitWith(outputv, live_variables).work,
   WorkHolding([s \in 1..Len(work) |-> <<50 + s>>]),
   WorkHolding([s \in 1..Len(work) |-> <<1>>])}

\* The output buffers with other numbers in them.
OtherOutput ==
  [i \in 1..Len(output) |->
     IF layer = "MX" THEN <<70 + i>> ELSE [j \in 1..Len(output[i]) |-> <<70 + i, j>>]]

\* The outputs of evaluate() on the current inputs, begun on work vector w.
OutputsFrom(w) == EvaluateBody(layer, algorithm, free_vars, w, input, OtherOutput).output

\* C31: the outputs of a numeric evaluate() that runs the tape depend on
\* the input buffers only: begun on any other contents of the work vector
\* (and of the output buffers), the same call gives the same outputs.
C31_OutputsOfInputsOnly ==
  [][(Evaluate /\ free_vars = <<>>) =>
       \A w \in OtherWorks : output' = OutputsFrom(w)]_vars

\* An evaluation has run, an input was set to another number since, and the
\* work vector and the outputs still are those of the earlier inputs; the
\* tape loads an input and computes an operation from it.
C31_Witness ==
  /\ is_init
  /\ err = "none"
  /\ executed = Len(algorithm)
  /\ \E k \in Records : algorithm[k].op = "OP_INPUT"
  /\ \E k \in Records : algorithm[k].op \in {"OP_SIN", "OP_MUL", "OP_ADD"}
  /\ work \notin OtherWorks
  /\ output # OutputsFrom(work)
  /\ work # EvaluateBody(layer, algorithm, free_vars, work, input, output).work

====
